---- MODULE Spec2Model ----
(***************************************************************************)
(* Model of the i18n string reviewer: the POT comparator (comparator.js),  *)
(* the LLM match cache (llm-cache.js) and the LLM matcher (llm-matcher.js).*)
(* Strings are TLA+ strings; JavaScript's undefined is the value Undefined.*)
(***************************************************************************)
EXTENDS Integers, Sequences, FiniteSets, TLC

VARIABLES
  baseParsed,     \* records of the parsed base POT file, in file order
  targetParsed,   \* records of the parsed target POT file, in file order
  baseEntries,    \* POTComparator.baseEntries   (Map, insertion ordered)
  targetEntries,  \* POTComparator.targetEntries (Map, insertion ordered)
  added,          \* POTComparator.added
  removed,        \* POTComparator.removed
  changed,        \* POTComparator.changed
  cmpPc,          \* "constructed" | "loaded" | "compared"
  compares,       \* number of compare() calls made so far
  runs,           \* number of runs of the action started so far
  apiKey,         \* openrouterKey of the current run
  model,          \* openrouterModel of the current run
  pool,           \* baseEntriesArray of the current run (a reference into Pools)
  prExtracted,    \* what extractCacheFromComment finds in the PR of this run
  cacheFile,      \* the local cache file .llm-cache.json
  cacheLoaded,    \* LLMMatcher.cache !== null
  cache,          \* LLMCache.cache (object, insertion ordered)
  modified,       \* LLMCache.modified
  mPc,            \* findBestMatch: "idle" | "waiting" | "delay" | "thrown"
  calls,          \* findBestMatch calls made in the current run
  curQuery,       \* newString of the current (or last) findBestMatch call
  batchIdx,       \* loop variable i of the batch loop
  oracleCalls,    \* callOpenRouter calls issued by the current (or last) call
  lastReturn,     \* how the current (or last) findBestMatch call ended
  prevCall,       \* the query and the end of the findBestMatch call before it
  slice,          \* start and end of the batch last sent by the current (or last) call
  answer,         \* how the callOpenRouter promise of that batch settled
  cells,          \* entriesWithData the reporter has collected in this run
  report,         \* how generateMarkdownReport of the last run ended
  prComments,     \* the comments of the pull request, oldest first
  nextCommentId,  \* the id GitHub gives the next comment it creates
  prRuns,         \* runs of the action started on this pull request
  runPc,          \* run(): "off" | "started" | "validated" | "compared" | "reported" | "commented" | "ended"
  runIn,          \* the inputs of the current (or last) run
  results,        \* the counts of comparator.getResults() in that run
  runStatus,      \* "none" | "failed" (core.setFailed was called) | "success"
  runFatal,       \* the error that ended the run early, "none" if no error did
  runWarned,      \* core.warning was called by the current (or last) run
  rcData,         \* entriesWithData of the run that wrote the report comment
  rcBy,           \* who wrote the report comment: "nobody" | "reporter" | "other"
  rcBody,         \* the body of the report comment, Null if there is none
  lcCache,        \* this.cache of an LLMCache object
  lcSets,         \* set() calls on that object
  lcGot,          \* the last get() call on that object and what it returned
  lcPc,           \* "none" | "posted" | "loaded"
  genResults,     \* generateMarkdownReport: the counts of its results argument
  genKey,         \* its openrouterKey argument
  genPc,          \* "idle" | "added" | "changed" | "done" | "thrown"
  genI,           \* the loop variable i of the table it is in
  genCalls        \* the findBestMatch calls it has made, in order

cmpVars == <<baseParsed, targetParsed, baseEntries, targetEntries,
             added, removed, changed, cmpPc, compares>>

mVars == <<runs, apiKey, model, pool, prExtracted, cacheFile, cacheLoaded,
           cache, modified, mPc, calls, curQuery, batchIdx,
           oracleCalls, lastReturn, prevCall, slice, answer, cells, report>>

runVars == <<prComments, nextCommentId, prRuns, runPc, runIn, results, runStatus,
             runFatal, runWarned>>

lcVars == <<rcData, rcBy, rcBody, lcCache, lcSets, lcGot, lcPc>>

genVars == <<genResults, genKey, genPc, genI, genCalls>>

vars == <<cmpVars, mVars, runVars, lcVars, genVars>>

-----------------------------------------------------------------------------
(* Bounds *)

MaxRecords == 2      \* records per parsed POT file
MaxCompares == 2     \* compare() calls on one comparator
MaxRuns == 2         \* runs of the action on one pull request / workspace
MaxCalls == 2        \* findBestMatch calls per run
MaxCount == 1        \* entries of each kind (added, removed, changed, unchanged) a run compares

-----------------------------------------------------------------------------
(* JavaScript helpers *)

Undefined == "<undefined>"

Null == "<null>"

\* truthiness of a string, null or undefined
Truthy(x) == x \notin {Undefined, Null, ""}

\* String.prototype.startsWith / endsWith
StartsWith(s, prefix) ==
  Len(prefix) <= Len(s) /\ SubSeq(s, 1, Len(prefix)) = prefix

EndsWith(s, suffix) ==
  Len(suffix) <= Len(s) /\ SubSeq(s, Len(s) - Len(suffix) + 1, Len(s)) = suffix

\* String.prototype.includes
Includes(s, sub) ==
  \E i \in 1..(Len(s) - Len(sub) + 1) : SubSeq(s, i, i + Len(sub) - 1) = sub

\* String.prototype.trim (the whitespace of the model is the blank)
RECURSIVE Trim(_)
Trim(s) ==
  IF s = "" THEN ""
  ELSE IF SubSeq(s, 1, 1) = " " THEN Trim(SubSeq(s, 2, Len(s)))
  ELSE IF SubSeq(s, Len(s), Len(s)) = " " THEN Trim(SubSeq(s, 1, Len(s) - 1))
  ELSE s

\* a string of n copies of c
RECURSIVE Repeat(_, _)
Repeat(c, n) ==
  IF n = 0 THEN ""
  ELSE IF n % 2 = 0 THEN LET half == Repeat(c, n \div 2) IN half \o half
  ELSE c \o Repeat(c, n - 1)

\* x || d  for a string-or-undefined x
OrElse(x, d) == IF x = Undefined \/ x = "" THEN d ELSE x

RECURSIVE SeqToSet(_)
SeqToSet(s) == IF s = <<>> THEN {} ELSE {Head(s)} \cup SeqToSet(Tail(s))

\* Array.prototype.filter
RECURSIVE Filter(_, _)
Filter(s, keep) ==
  IF s = <<>> THEN <<>>
  ELSE IF Head(s) \in keep THEN <<Head(s)>> \o Filter(Tail(s), keep)
       ELSE Filter(Tail(s), keep)

-----------------------------------------------------------------------------
(* POTEntry *)

NoComments == [translator |-> "", extracted |-> "", reference |-> "", flag |-> ""]

\* new POTEntry({msgid, msgidPlural, msgctxt, comments})
POTEntry(msgid, msgidPlural, msgctxt, comments) ==
  [msgid |-> msgid,
   msgidPlural |-> msgidPlural,
   msgctxt |-> msgctxt,
   comments |-> [translator |-> OrElse(comments.translator, ""),
                 extracted |-> OrElse(comments.extracted, ""),
                 reference |-> OrElse(comments.reference, ""),
                 flag |-> OrElse(comments.flag, "")]]

getKey(e) == IF e.msgctxt # "" THEN e.msgctxt \o "||" \o e.msgid ELSE e.msgid

hasChangedContentInverted(a, b) == a.msgidPlural = b.msgidPlural

hasChangedContentWithComments(a, b) ==
  a.msgidPlural # b.msgidPlural \/ a.comments # b.comments

hasChangedContent(a, b) == a.msgidPlural # b.msgidPlural

-----------------------------------------------------------------------------
(* Map (insertion ordered): a sequence of [key, value] without repeated keys *)

MapKeys(m) == [i \in 1..Len(m) |-> m[i].key]

MapValues(m) == [i \in 1..Len(m) |-> m[i].value]

MapHas(m, k) == \E i \in 1..Len(m) : m[i].key = k

MapGet(m, k) == m[CHOOSE i \in 1..Len(m) : m[i].key = k].value

MapSetKeepFirst(m, k, v) ==
  IF MapHas(m, k) THEN m ELSE Append(m, [key |-> k, value |-> v])

MapSet(m, k, v) ==
  IF MapHas(m, k)
  THEN [i \in 1..Len(m) |-> IF m[i].key = k THEN [key |-> k, value |-> v] ELSE m[i]]
  ELSE Append(m, [key |-> k, value |-> v])

-----------------------------------------------------------------------------
(* Parsed POT files.  A parsed file is the sequence of its records in file *)
(* order; gettext-parser groups them as translations[context][msgid], so   *)
(* (context, msgid) is unique within one file and Object.entries lists the *)
(* contexts, and the msgids of one context, in order of first appearance.  *)

\* data.comments is absent: every data.comments?.x is undefined
AbsentComments == [translator |-> Undefined, extracted |-> Undefined,
                   reference |-> Undefined, flag |-> Undefined]

SomeComments == [translator |-> "note", extracted |-> Undefined,
                 reference |-> "a.php:1", flag |-> ""]

Rec(context, msgid, msgid_plural, comments) ==
  [context |-> context, msgid |-> msgid, msgid_plural |-> msgid_plural,
   comments |-> comments]

\* the header record, a string with plural and comment variants, two records
\* whose keys collide ("a||b" without context, "b" in context "a"), and "c"
RawRecords ==
  {Rec("", "", Undefined, AbsentComments)}
  \cup { Rec("", "b", pl, cm) : pl \in {Undefined, "%d b"},
                                 cm \in {AbsentComments, SomeComments} }
  \cup {Rec("", "a||b", Undefined, AbsentComments)}
  \cup { Rec("a", "b", pl, AbsentComments) : pl \in {Undefined, "%d b"} }
  \cup {Rec("", "c", Undefined, SomeComments)}

RECURSIVE SeqsUpTo(_, _)
SeqsUpTo(S, n) ==
  IF n = 0 THEN {<<>>}
  ELSE LET shorter == SeqsUpTo(S, n - 1)
       IN shorter \cup { Append(s, r) : s \in {t \in shorter : Len(t) = n - 1}, r \in S }

UniqueIdents(s) ==
  \A i, j \in 1..Len(s) :
    (s[i].context = s[j].context /\ s[i].msgid = s[j].msgid) => i = j

ParsedFiles == { s \in SeqsUpTo(RawRecords, MaxRecords) : UniqueIdents(s) }

\* Object.entries(parsed.translations) keys: contexts in order of first appearance
RECURSIVE ContextsOf(_)
ContextsOf(s) ==
  IF s = <<>> THEN <<>>
  ELSE LET rest == ContextsOf(SubSeq(s, 1, Len(s) - 1))
           c == s[Len(s)].context
       IN IF c \in SeqToSet(rest) THEN rest ELSE Append(rest, c)

\* Object.entries(parsed.translations[context])
RecordsOf(s, context) == Filter(s, {r \in SeqToSet(s) : r.context = context})

\* the loop body of _processEntries for one record
EntryOf(r) == POTEntry(r.msgid, OrElse(r.msgid_plural, ""), r.context, r.comments)

ProcessRecord(entriesMap, r) ==
  IF r.msgid = "" THEN entriesMap
  ELSE MapSet(entriesMap, getKey(EntryOf(r)), EntryOf(r))

RECURSIVE ProcessRecords(_, _)
ProcessRecords(entriesMap, rs) ==
  IF rs = <<>> THEN entriesMap
  ELSE ProcessRecords(ProcessRecord(entriesMap, Head(rs)), Tail(rs))

RECURSIVE ProcessContexts(_, _, _)
ProcessContexts(entriesMap, s, contexts) ==
  IF contexts = <<>> THEN entriesMap
  ELSE IF Head(contexts) = "" THEN ProcessContexts(entriesMap, s, Tail(contexts))
       ELSE ProcessContexts(ProcessRecords(entriesMap, RecordsOf(s, Head(contexts))),
                            s, Tail(contexts))

\* the order in which _processEntries visits the records of a parsed file
RECURSIVE OtherContextRecords(_, _)
OtherContextRecords(s, contexts) ==
  IF contexts = <<>> THEN <<>>
  ELSE IF Head(contexts) = "" THEN OtherContextRecords(s, Tail(contexts))
       ELSE RecordsOf(s, Head(contexts)) \o OtherContextRecords(s, Tail(contexts))

ProcessingOrder(s) == RecordsOf(s, "") \o OtherContextRecords(s, ContextsOf(s))

\* POTComparator._processEntries(parsed, entriesMap)
processEntries(s, entriesMap) ==
  ProcessContexts(ProcessRecords(entriesMap, RecordsOf(s, "")), s, ContextsOf(s))

-----------------------------------------------------------------------------
(* POTComparator *)

CmpInit ==
  /\ baseParsed = <<>>
  /\ targetParsed = <<>>
  /\ baseEntries = <<>>
  /\ targetEntries = <<>>
  /\ added = <<>>
  /\ removed = <<>>
  /\ changed = <<>>
  /\ cmpPc = "constructed"
  /\ compares = 0

\* loadPOTFiles(): parse both files and index them
LoadPOTFiles ==
  /\ cmpPc = "constructed"
  /\ \E b \in ParsedFiles, t \in ParsedFiles :
       /\ baseParsed' = b
       /\ targetParsed' = t
       /\ baseEntries' = processEntries(b, baseEntries)
       /\ targetEntries' = processEntries(t, targetEntries)
  /\ cmpPc' = "loaded"
  /\ UNCHANGED <<added, removed, changed, compares>>
  /\ UNCHANGED <<mVars, runVars, lcVars, genVars>>

baseKeys == SeqToSet(MapKeys(baseEntries))

targetKeys == SeqToSet(MapKeys(targetEntries))

addedKeysNoNegation == Filter(MapKeys(targetEntries), baseKeys)

addedKeys == Filter(MapKeys(targetEntries), targetKeys \ baseKeys)

removedKeys == Filter(MapKeys(baseEntries), baseKeys \ targetKeys)

commonKeys == Filter(MapKeys(baseEntries), targetKeys)

\* the entries compare() pushes to this.changed
RECURSIVE ChangedPairs(_)
ChangedPairs(keys) ==
  IF keys = <<>> THEN <<>>
  ELSE LET baseEntry == MapGet(baseEntries, Head(keys))
           targetEntry == MapGet(targetEntries, Head(keys))
       IN (IF hasChangedContent(baseEntry, targetEntry)
           THEN << [base |-> baseEntry, target |-> targetEntry] >>
           ELSE <<>>) \o ChangedPairs(Tail(keys))

\* compare()
Compare ==
  /\ cmpPc \in {"loaded", "compared"}
  /\ compares < MaxCompares
  /\ added' = [i \in 1..Len(addedKeys) |-> MapGet(targetEntries, addedKeys[i])]
  /\ removed' = [i \in 1..Len(removedKeys) |-> MapGet(baseEntries, removedKeys[i])]
  /\ changed' = changed \o ChangedPairs(commonKeys)
  /\ cmpPc' = "compared"
  /\ compares' = compares + 1
  /\ UNCHANGED <<baseParsed, targetParsed, baseEntries, targetEntries>>
  /\ UNCHANGED <<mVars, runVars, lcVars, genVars>>

getTotalChanges == Len(added) + Len(removed) + Len(changed)

\* getResults()
getResults ==
  [added |-> added, removed |-> removed, changed |-> changed,
   addedCount |-> Len(added), removedCount |-> Len(removed),
   changedCount |-> Len(changed), totalChanges |-> getTotalChanges]

CmpNext == LoadPOTFiles \/ Compare

-----------------------------------------------------------------------------
(* LLMCache (llm-cache.js).  The cache object is an insertion ordered map  *)
(* from a key (md5 digest or report string) to an entry.  The timestamp of *)
(* an entry is never read and is left out.  Query strings are assumed not  *)
(* to be names of Object.prototype properties.                             *)

\* a result { match: m }
MatchResult(m) == [match |-> m, error |-> Undefined]

\* a result { error: e }
ErrorResult(e) == [match |-> Undefined, error |-> e]

\* LLMCache.generateKey: the md5 digest of `${newString}:${model}`, taken as
\* collision free on its input string
generateKey(newString, m) == "md5(" \o newString \o ":" \o m \o ")"

\* the entry written by set()
HashedEntry(newString, m, result) ==
  [newString |-> newString, model |-> m, result |-> result, fromReport |-> FALSE]

\* the entry _convertExtractedCache makes of a report row
ReportEntry(newString, match) ==
  [newString |-> newString, model |-> Undefined,
   result |-> MatchResult(match), fromReport |-> TRUE]

\* the value null returned by get()
NullEntry ==
  [newString |-> Undefined, model |-> Undefined,
   result |-> MatchResult(Undefined), fromReport |-> FALSE]

\* LLMCache._isValidMatch
isValidMatch(newString, suggestedMatch) ==
  /\ Truthy(suggestedMatch) /\ Truthy(newString)
  /\ suggestedMatch \notin {"-", "..."}
  /\ ~StartsWith(suggestedMatch, "*")
  /\ ~StartsWith(suggestedMatch, "LLM Error")
  /\ ~(Includes(suggestedMatch, "and ") /\ Includes(suggestedMatch, "more"))

\* LLMCache._convertExtractedCache
RECURSIVE convertExtractedCache(_)
convertExtractedCache(extractedCache) ==
  IF extractedCache = <<>> THEN <<>>
  ELSE LET rest == convertExtractedCache(SubSeq(extractedCache, 1, Len(extractedCache) - 1))
           row == extractedCache[Len(extractedCache)]
       IN MapSet(rest, row.key, ReportEntry(row.value.newString, row.value.match))

FuzzyPrefixLen == 40

\* the fuzzy test of get() on one entry
FuzzyHit(cachedValue, newString) ==
  /\ cachedValue.fromReport
  /\ Truthy(cachedValue.newString)
  /\ \/ /\ EndsWith(cachedValue.newString, "...")
        /\ StartsWith(newString,
                      SubSeq(cachedValue.newString, 1, Len(cachedValue.newString) - 3))
     \/ /\ Len(newString) > FuzzyPrefixLen
        /\ StartsWith(cachedValue.newString, SubSeq(newString, 1, FuzzyPrefixLen))

cacheSetKeepingOnlyLast(c, newString, m, result) ==
  <<[key |-> generateKey(newString, m), value |-> HashedEntry(newString, m, result)]>>

cacheSetSkipNull(c, newString, m, result) ==
  IF result.match = Null THEN c
  ELSE MapSet(c, generateKey(newString, m), HashedEntry(newString, m, result))

cacheSetSwappedKey(c, newString, m, result) ==
  MapSet(c, generateKey(m, newString), HashedEntry(newString, m, result))

cacheGetFirstReportEntry(c, newString, m) ==
  IF MapHas(c, generateKey(newString, m)) THEN MapGet(c, generateKey(newString, m))
  ELSE IF MapHas(c, newString) THEN MapGet(c, newString)
  ELSE IF \E i \in 1..Len(c) : c[i].value.fromReport
       THEN c[CHOOSE i \in 1..Len(c) :
                /\ c[i].value.fromReport
                /\ \A j \in 1..(i - 1) : ~c[j].value.fromReport].value
       ELSE NullEntry

cacheGetExactOnly(c, newString, m) ==
  IF MapHas(c, generateKey(newString, m)) THEN MapGet(c, generateKey(newString, m))
  ELSE IF MapHas(c, newString) THEN MapGet(c, newString)
  ELSE NullEntry

\* LLMCache.get
cacheGet(c, newString, m) ==
  IF MapHas(c, generateKey(newString, m)) THEN MapGet(c, generateKey(newString, m))
  ELSE IF MapHas(c, newString) THEN MapGet(c, newString)
  ELSE IF \E i \in 1..Len(c) : FuzzyHit(c[i].value, newString)
       THEN c[CHOOSE i \in 1..Len(c) :
                /\ FuzzyHit(c[i].value, newString)
                /\ \A j \in 1..(i - 1) : ~FuzzyHit(c[j].value, newString)].value
       ELSE NullEntry

\* LLMCache.set (the new value of this.cache)
cacheSet(c, newString, m, result) ==
  MapSet(c, generateKey(newString, m), HashedEntry(newString, m, result))

\* LLMCache.load: the report comment of the pull request first, else the file
cacheLoad(extractedCache, file) ==
  IF extractedCache # <<>> THEN convertExtractedCache(extractedCache)
  ELSE IF file.exists THEN file.data
  ELSE <<>>

-----------------------------------------------------------------------------
(* LLMMatcher (llm-matcher.js): callOpenRouter *)

\* what comes back from one request to the oracle
Reply(transport, statusCode, bodyParses, hasContent, contentParses, match) ==
  [transport |-> transport, statusCode |-> statusCode, bodyParses |-> bodyParses,
   hasContent |-> hasContent, contentParses |-> contentParses, match |-> match]

\* a match value that is not a string
NotAString == "<number>"

Replies ==
  { Reply("error", 0, FALSE, FALSE, FALSE, Undefined),
    Reply("timeout", 0, FALSE, FALSE, FALSE, Undefined),
    Reply("response", 429, TRUE, FALSE, FALSE, Undefined),
    Reply("response", 200, FALSE, FALSE, FALSE, Undefined),
    Reply("response", 200, TRUE, FALSE, FALSE, Undefined),
    Reply("response", 200, TRUE, TRUE, FALSE, Undefined),
    Reply("response", 200, TRUE, TRUE, TRUE, NotAString),
    Reply("response", 200, TRUE, TRUE, TRUE, Null),
    Reply("response", 200, TRUE, TRUE, TRUE, "  "),
    Reply("response", 200, TRUE, TRUE, TRUE, " Log in") }

Rejected(message) ==
  [kind |-> "reject", message |-> message, value |-> MatchResult(Undefined)]

Resolved(result) == [kind |-> "resolve", message |-> "", value |-> result]

\* the promise is pending, or no request was made
NoAnswer == [kind |-> "none", message |-> "", value |-> MatchResult(Undefined)]

callOpenRouterTimeoutIsNoMatch(reply) ==
  IF reply.transport \in {"error", "timeout"} THEN Resolved(MatchResult(Null))
  ELSE IF reply.statusCode # 200 THEN Rejected("API Error")
  ELSE IF ~reply.bodyParses THEN Resolved(ErrorResult("Parse error"))
  ELSE IF ~reply.hasContent THEN Resolved(ErrorResult("Empty response"))
  ELSE IF ~reply.contentParses THEN Resolved(ErrorResult("Invalid JSON response"))
  ELSE IF ~Truthy(reply.match) THEN Resolved(MatchResult(Null))
  ELSE IF reply.match = NotAString THEN Resolved(ErrorResult("Invalid JSON response"))
  ELSE Resolved(MatchResult(Trim(reply.match)))

\* LLMMatcher.callOpenRouter: the settlement of the promise for one reply
callOpenRouter(reply) ==
  IF reply.transport = "error" THEN Rejected("Network error")
  ELSE IF reply.transport = "timeout" THEN Rejected("Request timeout")
  ELSE IF reply.statusCode # 200 THEN Rejected("API Error")
  ELSE IF ~reply.bodyParses THEN Resolved(ErrorResult("Parse error"))
  ELSE IF ~reply.hasContent THEN Resolved(ErrorResult("Empty response"))
  ELSE IF ~reply.contentParses THEN Resolved(ErrorResult("Invalid JSON response"))
  ELSE IF ~Truthy(reply.match) THEN Resolved(MatchResult(Null))
  ELSE IF reply.match = NotAString THEN Resolved(ErrorResult("Invalid JSON response"))
  ELSE Resolved(MatchResult(Trim(reply.match)))

-----------------------------------------------------------------------------
(* LLMMatcher: findBestMatch *)

batchSize == 1000

maxBatches == 10

Min(a, b) == IF a < b THEN a ELSE b

\* Math.ceil(n / d)
CeilDiv(n, d) == (n + d - 1) \div d

\* the filter predicate: msgid && msgid.trim().length > 0 && msgid.length < 200
KeepBaseString(msgid) ==
  Truthy(msgid) /\ Len(Trim(msgid)) > 0 /\ Len(msgid) < 200

\* baseEntries.map(entry => entry.msgid).filter(...)
FilterBaseStrings(entries) ==
  SelectSeq([i \in 1..Len(entries) |-> entries[i].msgid], KeepBaseString)

NumBatchesUncapped(strings) == CeilDiv(Len(strings), batchSize)

\* the bound of the batch loop
NumBatches(strings) == Min(maxBatches, CeilDiv(Len(strings), batchSize))

\* baseStrings.slice(start, end) of batch i
Batch(strings, i) ==
  SubSeq(strings, i * batchSize + 1, Min(i * batchSize + batchSize, Len(strings)))

\* the local variables start and end of the batch loop in round i
BatchRange(strings, i) ==
  [start |-> i * batchSize, end |-> Min(i * batchSize + batchSize, Len(strings))]

NoSlice == [start |-> 0, end |-> 0]

BlankKeyNoTrim(key) == ~Truthy(key)

BlankKey(key) == ~Truthy(key) \/ ~Truthy(Trim(key))

\* how a findBestMatch call ended: kind is "none", "return" or "throw", via
\* names the return statement taken
Ended(kind, via, value) == [kind |-> kind, via |-> via, value |-> value]

NoFile == [exists |-> FALSE, data |-> <<>>]

NotEnded == Ended("none", "", MatchResult(Undefined))

NoCall == [query |-> "", ended |-> NotEnded]

FormatBeforeCache(key, cached, query, entries, strings) ==
  IF ~StartsWith(key, "sk-or-") THEN Ended("return", "key", ErrorResult("Invalid key format"))
  ELSE IF cached # NullEntry THEN Ended("return", "cache", cached.result)
  ELSE IF ~Truthy(query) \/ ~Truthy(Trim(query)) THEN Ended("return", "query", MatchResult(Null))
  ELSE IF entries = <<>> THEN Ended("return", "pool", MatchResult(Null))
  ELSE IF strings = <<>> THEN Ended("return", "filter", MatchResult(Null))
  ELSE NotEnded

IgnoreCacheHit(key, cached, query, entries, strings) ==
  IF ~StartsWith(key, "sk-or-") THEN Ended("return", "key", ErrorResult("Invalid key format"))
  ELSE IF ~Truthy(query) \/ ~Truthy(Trim(query)) THEN Ended("return", "query", MatchResult(Null))
  ELSE IF entries = <<>> THEN Ended("return", "pool", MatchResult(Null))
  ELSE IF strings = <<>> THEN Ended("return", "filter", MatchResult(Null))
  ELSE NotEnded

PoolBeforeCache(key, cached, query, entries, strings) ==
  IF ~StartsWith(key, "sk-or-") THEN Ended("return", "key", ErrorResult("Invalid key format"))
  ELSE IF ~Truthy(query) \/ ~Truthy(Trim(query)) THEN Ended("return", "query", MatchResult(Null))
  ELSE IF entries = <<>> THEN Ended("return", "pool", MatchResult(Null))
  ELSE IF cached # NullEntry THEN Ended("return", "cache", cached.result)
  ELSE IF strings = <<>> THEN Ended("return", "filter", MatchResult(Null))
  ELSE NotEnded

\* the returns of findBestMatch that come after the credential check and
\* before the batch loop, given the result of this.cache.get(newString, model)
\* and the filtered baseStrings
EarlyReturn(key, cached, query, entries, strings) ==
  IF cached # NullEntry THEN Ended("return", "cache", cached.result)
  ELSE IF ~StartsWith(key, "sk-or-") THEN Ended("return", "key", ErrorResult("Invalid key format"))
  ELSE IF ~Truthy(query) \/ ~Truthy(Trim(query)) THEN Ended("return", "query", MatchResult(Null))
  ELSE IF entries = <<>> THEN Ended("return", "pool", MatchResult(Null))
  ELSE IF strings = <<>> THEN Ended("return", "filter", MatchResult(Null))
  ELSE NotEnded

BatchStepAlwaysDelays(result, isLast) ==
  IF Truthy(result.match) THEN "cache"
  ELSE IF Truthy(result.error) THEN "error"
  ELSE "delay"

BatchStepMatchGoesOn(result, isLast) ==
  IF Truthy(result.error) THEN "error"
  ELSE IF ~isLast THEN "delay"
  ELSE IF Truthy(result.match) THEN "cache"
  ELSE "exhausted"

BatchStepCachingErrors(result, isLast) ==
  IF Truthy(result.match) \/ Truthy(result.error) THEN "cache"
  ELSE IF ~isLast THEN "delay"
  ELSE "exhausted"

\* what the loop body does with the result of one batch: cache and return a
\* match, return an error, wait and go on, or leave the loop
BatchStep(result, isLast) ==
  IF Truthy(result.match) THEN "cache"
  ELSE IF Truthy(result.error) THEN "error"
  ELSE IF ~isLast THEN "delay"
  ELSE "exhausted"

cacheSaveAlways(file, c, dirty) == [exists |-> TRUE, data |-> c]

\* LLMCache.save: the cache file after save(), the write taken to succeed
cacheSave(file, c, dirty) ==
  IF ~dirty THEN file ELSE [exists |-> TRUE, data |-> c]

saveCacheOnAbort(file, loaded, c, dirty) ==
  IF loaded THEN cacheSave(file, c, dirty) ELSE file

\* the catch block of run(): core.setFailed and nothing else, so the cache
\* file stays as it is
runCatch(file, loaded, c, dirty) == file

suggestedMatchHidingErrors(matchResult) ==
  IF Truthy(matchResult.match) THEN matchResult.match
  ELSE "*No close match*"

\* the Suggested Match cell the reporter makes of a findBestMatch result
suggestedMatch(matchResult) ==
  IF Truthy(matchResult.error) THEN "LLM Error: " \o matchResult.error
  ELSE IF Truthy(matchResult.match) THEN matchResult.match
  ELSE "*No close match*"

\* the reporter asks for a suggestion only with a key and a non-empty pool
reporterAsks(key, entries) == Truthy(key) /\ entries # <<>>

\* entriesWithData.push({entry, wordCount, suggestedMatch, hasSuggestion})
\* for a string the reporter asked findBestMatch about
pushEntry(data, key, entries, query, matchResult) ==
  IF reporterAsks(key, entries)
  THEN Append(data, [msgid |-> query,
                     suggestedMatch |-> suggestedMatch(matchResult),
                     hasSuggestion |-> ~Truthy(matchResult.error) /\ Truthy(matchResult.match)])
  ELSE data

NoReport == [status |-> "none", entries |-> <<>>]

MInit ==
  /\ runs = 0
  /\ apiKey = ""
  /\ model = ""
  /\ pool = "none"
  /\ prExtracted = <<>>
  /\ cacheFile = NoFile
  /\ cacheLoaded = FALSE
  /\ cache = <<>>
  /\ modified = FALSE
  /\ mPc = "off"
  /\ calls = 0
  /\ curQuery = ""
  /\ batchIdx = 0
  /\ oracleCalls = 0
  /\ lastReturn = NotEnded
  /\ prevCall = NoCall
  /\ slice = NoSlice
  /\ answer = NoAnswer
  /\ cells = <<>>
  /\ report = NoReport

Keys == {"", " ", "bad-key", "sk-or-1"}

Models == {"m", "n:m"}

Queries == {"", "Sign in", "Please sign in to continue"}

Candidate(msgid) == [msgid |-> msgid]

\* more candidates than the batch loop sends
BigPool ==
  [i \in 1..(batchSize * maxBatches + 1) |->
     Candidate(IF i > batchSize * maxBatches THEN "Log in" ELSE "Item")]

\* the candidate arrays a run may be given, by name
Pools ==
  [none |-> <<>>,
   unusable |-> <<Candidate(""), Candidate("  "), Candidate(Repeat("x", 200))>>,
   small |-> <<Candidate("Log in"), Candidate(Repeat("x", 199))>>,
   big |-> BigPool]

\* the baseStrings findBestMatch computes from each candidate array
BaseStringsOf == [p \in DOMAIN Pools |-> FilterBaseStrings(Pools[p])]

Row(newString, match) ==
  [key |-> newString, value |-> [newString |-> newString, match |-> match]]

\* what LLMCache.extractCacheFromComment returns for the report comment of
\* the pull request, <<>> standing for null (no comment, or no usable row)
ExtractedCaches ==
  { x \in { <<>>,
            <<Row("Please sign in to cont...", "Log in")>>,
            <<Row("Sign in", "Log in"), Row("Sign...", "Sign on")>>,
            <<Row("Sign in", "*No close match*")>> } :
      \A i \in 1..Len(x) : isValidMatch(x[i].value.newString, x[i].value.match) }

\* a run of the action starts: a new process with its inputs, no cache object
StartRun ==
  /\ mPc \in {"off", "thrown"}
  /\ runs < MaxRuns
  /\ runs' = runs + 1
  /\ \E key \in Keys, m \in Models, entries \in DOMAIN Pools, extracted \in ExtractedCaches :
       /\ apiKey' = key
       /\ model' = m
       /\ pool' = entries
       /\ prExtracted' = extracted
  /\ cacheLoaded' = FALSE
  /\ cache' = <<>>
  /\ modified' = FALSE
  /\ mPc' = "idle"
  /\ calls' = 0
  /\ curQuery' = ""
  /\ batchIdx' = 0
  /\ oracleCalls' = 0
  /\ lastReturn' = NotEnded
  /\ prevCall' = NoCall
  /\ slice' = NoSlice
  /\ answer' = NoAnswer
  /\ cells' = <<>>
  /\ report' = NoReport
  /\ UNCHANGED cacheFile
  /\ UNCHANGED <<cmpVars, runVars, lcVars, genVars>>

\* LLMMatcher.initCache('.llm-cache.json', octokit, prContext), as run() calls
\* it in a pull request when a key is given
InitCache ==
  /\ mPc = "idle"
  /\ calls = 0
  /\ ~cacheLoaded
  /\ Truthy(apiKey)
  /\ cacheLoaded' = TRUE
  /\ cache' = cacheLoad(prExtracted, cacheFile)
  /\ UNCHANGED <<runs, apiKey, model, pool, prExtracted, cacheFile, modified, mPc,
                 calls, curQuery, batchIdx, oracleCalls, lastReturn, prevCall,
                 slice, answer, cells, report>>
  /\ UNCHANGED <<cmpVars, runVars, lcVars, genVars>>

\* findBestMatch(newString, baseEntries, apiKey, model) up to its first await
\* of callOpenRouter, or to its return
FindBestMatch ==
  /\ mPc = "idle"
  /\ calls < MaxCalls
  /\ calls' = calls + 1
  /\ prevCall' = [query |-> curQuery, ended |-> lastReturn]
  /\ answer' = NoAnswer
  /\ \E newString \in Queries :
       /\ curQuery' = newString
       /\ IF BlankKey(apiKey)
          THEN /\ lastReturn' = Ended("return", "disabled", MatchResult(Null))
               /\ oracleCalls' = 0
               /\ cells' = pushEntry(cells, apiKey, Pools[pool], newString, MatchResult(Null))
               /\ UNCHANGED <<cacheLoaded, cache, mPc, batchIdx, slice>>
          ELSE LET c == IF cacheLoaded THEN cache ELSE cacheLoad(<<>>, cacheFile)
                   early == EarlyReturn(apiKey, cacheGet(c, newString, model), newString,
                                      Pools[pool], BaseStringsOf[pool])
               IN /\ cacheLoaded' = TRUE
                  /\ cache' = c
                  /\ batchIdx' = 0
                  /\ IF early.kind = "return"
                     THEN /\ lastReturn' = early
                          /\ oracleCalls' = 0
                          /\ cells' = pushEntry(cells, apiKey, Pools[pool], newString, early.value)
                          /\ slice' = NoSlice
                          /\ UNCHANGED mPc
                     ELSE /\ mPc' = "waiting"
                          /\ oracleCalls' = 1
                          /\ slice' = BatchRange(BaseStringsOf[pool], 0)
                          /\ lastReturn' = NotEnded
                          /\ UNCHANGED cells
  /\ UNCHANGED <<runs, apiKey, model, pool, prExtracted, cacheFile, modified, report>>
  /\ UNCHANGED <<cmpVars, runVars, lcVars, genVars>>

\* the awaited callOpenRouter settles and findBestMatch goes on to its next
\* await, its return or its throw; a throw goes through the reporter's
\* rethrow to the catch block of run(), where the run ends
OracleReply ==
  /\ mPc = "waiting"
  /\ \E reply \in Replies :
       LET settled == callOpenRouter(reply)
           step == BatchStep(settled.value,
                             batchIdx >= NumBatches(BaseStringsOf[pool]) - 1)
       IN /\ answer' = settled
          /\ IF settled.kind = "reject"
             THEN /\ mPc' = "thrown"
                  /\ lastReturn' = Ended("throw", settled.message, MatchResult(Undefined))
                  /\ cacheFile' = runCatch(cacheFile, cacheLoaded, cache, modified)
                  /\ report' = [status |-> "failed", entries |-> <<>>]
                  /\ UNCHANGED <<cache, modified, cells>>
             ELSE CASE step = "cache" ->
                         /\ cache' = cacheSet(cache, curQuery, model, settled.value)
                         /\ modified' = TRUE
                         /\ mPc' = "idle"
                         /\ lastReturn' = Ended("return", "match", settled.value)
                         /\ cells' = pushEntry(cells, apiKey, Pools[pool], curQuery, settled.value)
                         /\ UNCHANGED <<cacheFile, report>>
                    [] step = "error" ->
                         /\ mPc' = "idle"
                         /\ lastReturn' = Ended("return", "error", settled.value)
                         /\ cells' = pushEntry(cells, apiKey, Pools[pool], curQuery, settled.value)
                         /\ UNCHANGED <<cache, modified, cacheFile, report>>
                    [] step = "delay" ->
                         /\ mPc' = "delay"
                         /\ UNCHANGED <<cache, modified, lastReturn, cells, cacheFile, report>>
                    [] step = "exhausted" ->
                         /\ cache' = cacheSet(cache, curQuery, model, MatchResult(Null))
                         /\ modified' = TRUE
                         /\ mPc' = "idle"
                         /\ lastReturn' = Ended("return", "exhausted", MatchResult(Null))
                         /\ cells' = pushEntry(cells, apiKey, Pools[pool], curQuery, MatchResult(Null))
                         /\ UNCHANGED <<cacheFile, report>>
  /\ UNCHANGED <<runs, apiKey, model, pool, prExtracted, cacheLoaded,
                 calls, curQuery, batchIdx, oracleCalls, prevCall, slice>>
  /\ UNCHANGED <<cmpVars, runVars, lcVars, genVars>>

\* the delay between two batches is over: the loop issues the next batch
DelayElapsed ==
  /\ mPc = "delay"
  /\ batchIdx' = batchIdx + 1
  /\ oracleCalls' = oracleCalls + 1
  /\ mPc' = "waiting"
  /\ slice' = BatchRange(BaseStringsOf[pool], batchIdx + 1)
  /\ answer' = NoAnswer
  /\ UNCHANGED <<runs, apiKey, model, pool, prExtracted, cacheFile, cacheLoaded,
                 cache, modified, calls, curQuery, lastReturn, prevCall, cells, report>>
  /\ UNCHANGED <<cmpVars, runVars, lcVars, genVars>>

\* the end of run(): generateMarkdownReport returns the report, then
\* LLMMatcher.saveCache() if a key is given, i.e. LLMCache.save() on the
\* cache object, if there is one; then the process ends and only the file
\* and the report are left
SaveCache ==
  /\ mPc = "idle"
  /\ mPc' = "off"
  /\ report' = [status |-> "produced", entries |-> cells]
  /\ cacheFile' = IF Truthy(apiKey) /\ cacheLoaded
                  THEN cacheSave(cacheFile, cache, modified)
                  ELSE cacheFile
  /\ apiKey' = ""
  /\ model' = ""
  /\ pool' = "none"
  /\ prExtracted' = <<>>
  /\ cacheLoaded' = FALSE
  /\ cache' = <<>>
  /\ modified' = FALSE
  /\ calls' = 0
  /\ curQuery' = ""
  /\ batchIdx' = 0
  /\ oracleCalls' = 0
  /\ lastReturn' = NotEnded
  /\ prevCall' = NoCall
  /\ slice' = NoSlice
  /\ answer' = NoAnswer
  /\ cells' = <<>>
  /\ UNCHANGED runs
  /\ UNCHANGED <<cmpVars, runVars, lcVars, genVars>>

MNext == StartRun \/ InitCache \/ FindBestMatch \/ OracleReply \/ DelayElapsed \/ SaveCache

-----------------------------------------------------------------------------
(* Reporter (reporter.js): generateMarkdownReport *)

\* baseEntriesArray: the values of the base index, then the removed entries
baseEntriesArray(entries, rem) == MapValues(entries) \o rem

-----------------------------------------------------------------------------
(* The action's entry point: run() *)

\* what run() finds behind the base-pot-file and target-pot-file inputs:
\* one of the inputs is not given, one of the files is not there, one does
\* not parse, or both are catalogs
CatalogStates == {"unset", "missing", "unparsable", "ok"}

\* the inputs of one run; prContext stands for
\* githubToken && eventName === 'pull_request' && pullRequestNumber
RunInputs ==
  [catalogs : CatalogStates, failOnChanges : BOOLEAN, commentOnPR : BOOLEAN,
   prContext : BOOLEAN, openrouterKey : BOOLEAN]

\* the counts a comparison can end with: added, removed and changed entries,
\* and entries that are the same on both sides
Counts ==
  [nAdded : 0..MaxCount, nRemoved : 0..MaxCount, nChanged : 0..MaxCount,
   nSame : 0..MaxCount]

NoCounts == [nAdded |-> 0, nRemoved |-> 0, nChanged |-> 0, nSame |-> 0]

\* results.totalChanges
totalChanges(r) == r.nAdded + r.nRemoved + r.nChanged

\* core.getInput(name, { required: true }) throws for an input not given
getInputThrows(i) == i.catalogs = "unset"

\* the first of the two fs.existsSync checks that fails, if one does
missingFile(i) == i.catalogs = "missing"

\* loadPOTFiles() rethrows what reading and parsing the two files throws
loadPOTFilesThrows(i) == i.catalogs = "unparsable"

\* generateMarkdownReport asks findBestMatch for the added and the changed
\* strings, with a key and a non-empty baseEntriesArray (the base entries
\* and the removed entries); only then can the oracle fail hard
reportMayThrow(i, r) ==
  /\ i.openrouterKey
  /\ r.nAdded + r.nChanged > 0
  /\ r.nSame + r.nChanged + r.nRemoved > 0

\* the last test of run(): fail if requested and changes detected
failsOnChangesAlways(failOnChanges, total) == total > 0

failsOnChanges(failOnChanges, total) == failOnChanges /\ total > 0

\* the identifier run() puts in front of the report it posts
commentIdentifier == "<!-- i18n-string-reviewer-report -->"

\* a report as generateMarkdownReport writes it, by its first line
markdownReport == "## i18n String Review Report"

\* the body run() posts
commentBody == commentIdentifier \o "\n" \o markdownReport

\* comments.find(comment => comment.body?.includes(commentIdentifier)):
\* the position of the first such comment, 0 if there is none
RECURSIVE findFrom(_, _, _)
findFrom(comments, marker, k) ==
  IF k > Len(comments) THEN 0
  ELSE IF Includes(comments[k].body, marker) THEN k
  ELSE findFrom(comments, marker, k + 1)

existingComment(comments) == findFrom(comments, commentIdentifier, 1)

\* issues.updateComment, issues.createComment, issues.deleteComment
updateComment(comments, k, body) ==
  [comments EXCEPT ![k] = [id |-> comments[k].id, body |-> body]]

createComment(comments, id, body) == Append(comments, [id |-> id, body |-> body])

deleteComment(comments, k) ==
  SubSeq(comments, 1, k - 1) \o SubSeq(comments, k + 1, Len(comments))

\* the comment handling of run() once listComments has answered
commentStepCreatingAlways(comments, id, total) ==
  IF total > 0 THEN createComment(comments, id, commentBody)
  ELSE IF existingComment(comments) # 0
       THEN deleteComment(comments, existingComment(comments))
       ELSE comments

commentStep(comments, id, total) ==
  IF total > 0
  THEN IF existingComment(comments) # 0
       THEN updateComment(comments, existingComment(comments), commentBody)
       ELSE createComment(comments, id, commentBody)
  ELSE IF existingComment(comments) # 0
       THEN deleteComment(comments, existingComment(comments))
       ELSE comments

\* what somebody else writes on the pull request
OtherBody == "LGTM"

NoInputs ==
  [catalogs |-> "unset", failOnChanges |-> FALSE, commentOnPR |-> FALSE,
   prContext |-> FALSE, openrouterKey |-> FALSE]

RunInit ==
  /\ prComments = <<>>
  /\ nextCommentId = 1
  /\ results = NoCounts
  /\ prRuns = 0
  /\ runPc = "off"
  /\ runIn = NoInputs
  /\ runStatus = "none"
  /\ runFatal = "none"
  /\ runWarned = FALSE

\* the outer catch of run(): core.setFailed(`Action failed: ...`)
RunCatch(kind) ==
  /\ runPc' = "ended"
  /\ runStatus' = "failed"
  /\ runFatal' = kind

\* somebody else comments on the pull request between two runs
UserComments ==
  /\ runPc \in {"off", "ended"}
  /\ nextCommentId <= MaxRuns
  /\ prComments' = createComment(prComments, nextCommentId, OtherBody)
  /\ nextCommentId' = nextCommentId + 1
  /\ UNCHANGED <<prRuns, runPc, runIn, results, runStatus, runFatal, runWarned>>
  /\ UNCHANGED <<cmpVars, mVars, lcVars, genVars>>

\* run() starts and reads its inputs
RunBegin ==
  /\ runPc \in {"off", "ended"}
  /\ prRuns < MaxRuns
  /\ results' = NoCounts
  /\ prRuns' = prRuns + 1
  /\ \E i \in RunInputs : runIn' = i
  /\ runStatus' = "none"
  /\ runFatal' = "none"
  /\ runWarned' = FALSE
  /\ IF getInputThrows(runIn')
     THEN RunCatch("input")
     ELSE runPc' = "started"
  /\ UNCHANGED <<prComments, nextCommentId>>
  /\ UNCHANGED <<cmpVars, mVars, lcVars, genVars>>

\* Validate files exist
ValidateFiles ==
  /\ runPc = "started"
  /\ IF missingFile(runIn)
     THEN /\ runPc' = "ended"
          /\ runStatus' = "failed"
          /\ runFatal' = "missing file"
     ELSE /\ runPc' = "validated"
          /\ UNCHANGED <<runStatus, runFatal>>
  /\ UNCHANGED <<prComments, nextCommentId, prRuns, runIn, results, runWarned>>
  /\ UNCHANGED <<cmpVars, mVars, lcVars, genVars>>

\* comparator.loadPOTFiles(); comparator.compare(); getResults()
LoadAndCompare ==
  /\ runPc = "validated"
  /\ IF loadPOTFilesThrows(runIn)
     THEN RunCatch("load") /\ UNCHANGED results
     ELSE /\ runPc' = "compared"
          /\ \E r \in Counts : results' = r
          /\ UNCHANGED <<runStatus, runFatal>>
  /\ UNCHANGED <<prComments, nextCommentId, prRuns, runIn, runWarned>>
  /\ UNCHANGED <<cmpVars, mVars, lcVars, genVars>>

\* generateMarkdownReport, the outputs and the job summary
GenerateReport ==
  /\ runPc = "compared"
  /\ \E oracleThrows \in {t \in BOOLEAN : t => reportMayThrow(runIn, results)},
        summaryThrows \in BOOLEAN :
       IF oracleThrows THEN RunCatch("oracle")
       ELSE IF summaryThrows THEN RunCatch("summary")
       ELSE /\ runPc' = "reported"
            /\ UNCHANGED <<runStatus, runFatal>>
  /\ UNCHANGED <<prComments, nextCommentId, prRuns, runIn, results, runWarned>>
  /\ UNCHANGED <<cmpVars, mVars, lcVars, genVars>>

\* Comment on PR if requested: the try block and its catch, which warns
CommentOnPR ==
  /\ runPc = "reported"
  /\ runPc' = "commented"
  /\ IF runIn.commentOnPR /\ runIn.prContext
     THEN \E listed \in BOOLEAN, written \in BOOLEAN :
            LET after == commentStep(prComments, nextCommentId, totalChanges(results))
                writes == after # prComments \/ totalChanges(results) > 0
            IN  /\ prComments' = IF listed /\ written THEN after ELSE prComments
                /\ nextCommentId' = IF Len(prComments') > Len(prComments)
                                    THEN nextCommentId + 1 ELSE nextCommentId
                /\ runWarned' = (~listed \/ (writes /\ ~written))
     ELSE UNCHANGED <<prComments, nextCommentId, runWarned>>
  /\ UNCHANGED <<prRuns, runIn, results, runStatus, runFatal>>
  /\ UNCHANGED <<cmpVars, mVars, lcVars, genVars>>

\* Save LLM cache if it was used; fail if requested and changes detected
RunEnd ==
  /\ runPc = "commented"
  /\ runPc' = "ended"
  /\ runStatus' = IF failsOnChanges(runIn.failOnChanges, totalChanges(results))
                  THEN "failed" ELSE "success"
  /\ UNCHANGED <<prComments, nextCommentId, prRuns, runIn, results, runFatal, runWarned>>
  /\ UNCHANGED <<cmpVars, mVars, lcVars, genVars>>

RunNext ==
  UserComments \/ RunBegin \/ ValidateFiles \/ LoadAndCompare \/ GenerateReport \/ CommentOnPR \/ RunEnd

-----------------------------------------------------------------------------
(* The report text (reporter.js) and its reading back (llm-cache.js).  The  *)
(* emoji of the headings are left out of the strings on both sides.         *)

\* the concatenation of pieces[lo..hi], by quarters
RECURSIVE concat(_, _, _)
concat(pieces, lo, hi) ==
  IF hi - lo < 4
  THEN ((IF lo > hi THEN "" ELSE pieces[lo]) \o (IF lo + 1 > hi THEN "" ELSE pieces[lo + 1]))
       \o ((IF lo + 2 > hi THEN "" ELSE pieces[lo + 2]) \o (IF lo + 3 > hi THEN "" ELSE pieces[lo + 3]))
  ELSE LET q == (hi - lo + 1) \div 4
       IN (concat(pieces, lo, lo + q - 1) \o concat(pieces, lo + q, lo + 2 * q - 1))
          \o (concat(pieces, lo + 2 * q, lo + 3 * q - 1) \o concat(pieces, lo + 3 * q, hi))

\* String.prototype.split for a one-character separator
split(s, sep) ==
  LET at == SelectSeq([i \in 1..Len(s) |-> i], LAMBDA i : SubSeq(s, i, i) = sep)
  IN [n \in 1..(Len(at) + 1) |->
        SubSeq(s, IF n = 1 THEN 1 ELSE at[n - 1] + 1,
                  IF n > Len(at) THEN Len(s) ELSE at[n] - 1)]

\* Array.prototype.join
join(parts, sep) ==
  IF parts = <<>> THEN ""
  ELSE concat([i \in 1..(2 * Len(parts) - 1) |->
                 IF i % 2 = 1 THEN parts[(i + 1) \div 2] ELSE sep],
              1, 2 * Len(parts) - 1)

\* pat occurs in s at position i
occursAt(s, pat, i) == i >= 1 /\ i + Len(pat) - 1 <= Len(s) /\ SubSeq(s, i, i + Len(pat) - 1) = pat

\* the occurrences of pat (one or two characters) that split finds: it
\* scans from the left and goes on behind each occurrence it finds
splitsAt(s, pat, i) ==
  /\ occursAt(s, pat, i)
  /\ Len(pat) = 2 =>
        LET before == CHOOSE n \in 0..(i - 1) :
                        /\ \A j \in 1..n : occursAt(s, pat, i - j)
                        /\ ~occursAt(s, pat, i - n - 1)
        IN before % 2 = 0

\* s.split(pat).join(rep)
replaceAll(s, pat, rep) ==
  concat([i \in 1..Len(s) |->
            IF splitsAt(s, pat, i) THEN rep
            ELSE IF Len(pat) = 2 /\ splitsAt(s, pat, i - 1) THEN ""
            ELSE SubSeq(s, i, i)],
         1, Len(s))

\* charsToEscape, without the backquote (no string of the model holds one)
charsToEscape ==
  <<"\\", "*", "_", "{", "}", "[", "]", "(", ")", "#", "+", "-", ".", "!">>

\* the replacements of escapeMarkdown for the characters lo..hi of
\* charsToEscape, in their order
RECURSIVE escapeFrom(_, _, _)
escapeFrom(text, lo, hi) ==
  IF text = "" THEN text
  ELSE IF lo = hi THEN replaceAll(text, charsToEscape[lo], "\\" \o charsToEscape[lo])
  ELSE escapeFrom(escapeFrom(text, lo, (lo + hi) \div 2), (lo + hi) \div 2 + 1, hi)

\* Reporter.escapeMarkdown
escapeMarkdown(text) == IF ~Truthy(text) THEN "" ELSE escapeFrom(text, 1, Len(charsToEscape))

\* the replacements of _unescapeMarkdown for the characters lo..hi of
\* charsToUnescape, in their order
RECURSIVE unescapeFrom(_, _, _)
unescapeFrom(text, lo, hi) ==
  IF text = "" THEN text
  ELSE IF lo = hi THEN replaceAll(text, "\\" \o charsToEscape[lo], charsToEscape[lo])
  ELSE unescapeFrom(unescapeFrom(text, lo, (lo + hi) \div 2), (lo + hi) \div 2 + 1, hi)

\* LLMCache._unescapeMarkdown
unescapeMarkdown(text) == IF ~Truthy(text) THEN "" ELSE unescapeFrom(text, 1, Len(charsToEscape))

\* Reporter._truncate
truncate(text, maxLength) ==
  IF ~Truthy(text) THEN ""
  ELSE LET escaped == escapeMarkdown(text)
       IN IF Len(escaped) <= maxLength THEN escaped
          ELSE SubSeq(escaped, 1, maxLength - 3) \o "..."

\* the width of the String column of the added table
addedWidth == 50

\* the rows a table shows at most
rowLimit == 100

\* Reporter._countWords
countWords(text) ==
  IF ~Truthy(text) THEN 0 ELSE Len(SelectSeq(split(Trim(text), " "), LAMBDA word : word # ""))

RECURSIVE totalWords(_)
totalWords(data) ==
  IF data = <<>> THEN 0 ELSE countWords(Head(data).msgid) + totalWords(Tail(data))

\* entriesWithData.sort: entries with suggestions first, then the rest
sortSuggestionsFirst(data) ==
  SelectSeq(data, LAMBDA d : d.hasSuggestion) \o SelectSeq(data, LAMBDA d : ~d.hasSuggestion)

\* the row of the added table for one entry without references
addedRow(d) ==
  ("| " \o truncate(d.msgid, addedWidth))
    \o (" | - | " \o ToString(countWords(d.msgid)) \o " | " \o d.suggestedMatch \o " |")

\* the added table of generateMarkdownReport
addedTable(data) ==
  IF data = <<>> THEN <<>>
  ELSE <<"<details>",
         "<summary><strong>Added Strings (" \o ToString(Len(data))
            \o ")</strong> - Click to expand</summary>\n",
         "| String | Location | Words | Suggested Match |",
         "|--------|----------|-------|-----------------|">>
       \o [i \in 1..Min(Len(data), rowLimit) |-> addedRow(sortSuggestionsFirst(data)[i])]
       \o (IF Len(data) > rowLimit
           THEN <<"| ... | ... | *and " \o ToString(Len(data) - rowLimit) \o " more* | ... |">>
           ELSE <<>>)
       \o <<"| **Total** | | **" \o ToString(totalWords(data)) \o "** | |",
            "\n</details>\n">>

reportTitle == "i18n String Review Report"

\* the report of a comparison whose changes are the added entries of data,
\* under a heading of the given level
reportWithHeading(level, data) ==
  join(<<level \o " " \o reportTitle \o "\n">>
       \o (IF data = <<>>
           THEN <<"### No changes detected\n", "The POT files are identical.">>
           ELSE <<"### Summary\n",
                  "| Category | Count |",
                  "|----------|-------|",
                  "| Added | " \o ToString(Len(data)) \o " |",
                  "| Removed | 0 |",
                  "| Changed | 0 |",
                  "| **Total** | **" \o ToString(Len(data)) \o "** |\n">>
                \o addedTable(data)),
       "\n")

\* Reporter.generateMarkdownReport
generateMarkdownReport(data) == reportWithHeading("##", data)

\* LLMCache.getReportCommentIdentifier
getReportCommentIdentifier == "### " \o reportTitle

\* line.split('|').map(c => c.trim()).filter(c => c.length > 0)
cellsOf(line) ==
  LET parts == split(line, "|")
  IN SelectSeq([i \in 1..Len(parts) |-> Trim(parts[i])], LAMBDA c : c # "")

\* the column of the suggested match in the row of line k, 0 if the loop of
\* extractCacheFromComment takes no row from that line.  markerOf(line) is
\* the table a line switches to ("" if it switches to none); the last
\* switching line before k has set inAddedTable / inChangedTable for line k.
matchColumn(lines, k) ==
  LET markerOf(line) ==
        IF Includes(line, "Added Strings") THEN "added"
        ELSE IF Includes(line, "Changed Strings") THEN "changed"
        ELSE IF Includes(line, "Removed Strings") \/ line = "</details>" THEN "none"
        ELSE ""
      marks == SelectSeq([j \in 1..(k - 1) |-> j], LAMBDA j : markerOf(Trim(lines[j])) # "")
      table == IF marks = <<>> THEN "none" ELSE markerOf(Trim(lines[marks[Len(marks)]]))
      rowCells == cellsOf(Trim(lines[k]))
  IN IF markerOf(Trim(lines[k])) # "" THEN 0
     ELSE IF ~StartsWith(Trim(lines[k]), "|") \/ ~EndsWith(Trim(lines[k]), "|") THEN 0
     ELSE IF \/ rowCells = <<>>
             \/ Includes(rowCells[1], "---")
             \/ Includes(rowCells[1], "String")
             \/ Includes(rowCells[1], "**Total**")
             \/ rowCells[1] = "..."
          THEN 0
     ELSE IF table = "added" /\ Len(rowCells) >= 4 THEN 4
     ELSE IF table = "changed" /\ Len(rowCells) >= 5 THEN 5
     ELSE 0

\* the entry the loop stores for line k: cache[newString] = { newString, match }
rowOf(lines, k) ==
  LET rowCells == cellsOf(Trim(lines[k]))
  IN Row(unescapeMarkdown(rowCells[1]), unescapeMarkdown(rowCells[matchColumn(lines, k)]))

\* cache[key] = value for the rows in order
RECURSIVE storeRows(_, _)
storeRows(acc, rows) ==
  IF rows = <<>> THEN acc
  ELSE storeRows(MapSet(acc, Head(rows).key, Head(rows).value), Tail(rows))

\* the loop of extractCacheFromComment over the lines
extractFrom(lines) ==
  LET taken == SelectSeq([k \in 1..Len(lines) |-> k],
                         LAMBDA k : /\ matchColumn(lines, k) # 0
                                    /\ isValidMatch(rowOf(lines, k).value.newString,
                                                    rowOf(lines, k).value.match))
  IN storeRows(<<>>, [n \in 1..Len(taken) |-> rowOf(lines, taken[n])])

\* LLMCache.extractCacheFromComment, <<>> standing for null
extractCacheFromComment(body) ==
  IF ~Truthy(body) THEN <<>>
  ELSE IF ~Includes(body, getReportCommentIdentifier) THEN <<>>
  ELSE extractFrom(split(body, "\n"))

-----------------------------------------------------------------------------
(* One LLMCache object from the report comment of the pull request on *)

\* the row the reporter collects for an added string and its result
DataRow(msgid, matchResult) ==
  [msgid |-> msgid, suggestedMatch |-> suggestedMatch(matchResult),
   hasSuggestion |-> ~Truthy(matchResult.error) /\ Truthy(matchResult.match)]

\* the row the reporter collects without asking (no key, or no candidates)
PlainRow(msgid) == [msgid |-> msgid, suggestedMatch |-> "-", hasSuggestion |-> FALSE]

CommonPrefix == "Your session has expired, please sign in"

LongQueryA == CommonPrefix \o " now"

LongQueryB == CommonPrefix \o " again"

LongQueryC == CommonPrefix \o " again to continue working"

\* the entriesWithData a reporting run may have collected
ReportData ==
  { <<>>,
    <<DataRow("Sign in.", MatchResult("Log in"))>>,
    <<DataRow(LongQueryA, MatchResult("Log in"))>>,
    <<DataRow("Sign out", MatchResult(Null)), DataRow(LongQueryC, MatchResult("Log in"))>>,
    <<DataRow("Save", ErrorResult("Parse error")), PlainRow("Open")>> }

\* the strings the cache is asked about
CacheQueries ==
  {"Sign in.", "Sign out", "Save", "Open", LongQueryA, LongQueryB, LongQueryC, "q", "q:n"}

NoGet == [newString |-> "", model |-> "", entry |-> NullEntry]

LcInit ==
  /\ rcData = <<>>
  /\ rcBy = "nobody"
  /\ rcBody = Null
  /\ lcCache = <<>>
  /\ lcSets = 0
  /\ lcGot = NoGet
  /\ lcPc = "none"

\* the report comment of the pull request is written: by the reporter of an
\* earlier run, or by somebody else who puts the same text under the heading
\* the cache looks for
PostReport ==
  /\ lcPc = "none"
  /\ \E data \in ReportData, by \in {"reporter", "other"} :
       /\ rcData' = data
       /\ rcBy' = by
       /\ rcBody' = commentIdentifier \o "\n"
                      \o (IF by = "reporter" THEN generateMarkdownReport(data)
                          ELSE reportWithHeading("###", data))
  /\ lcPc' = "posted"
  /\ UNCHANGED <<lcCache, lcSets, lcGot>>
  /\ UNCHANGED <<cmpVars, mVars, runVars, genVars>>

\* LLMCache.load of the next run: the comment that includes the report
\* identifier, if there is one, is read back
LcLoad ==
  /\ lcPc = "posted"
  /\ lcCache' = cacheLoad(IF Includes(rcBody, getReportCommentIdentifier)
                          THEN extractCacheFromComment(rcBody) ELSE <<>>,
                          NoFile)
  /\ lcPc' = "loaded"
  /\ UNCHANGED <<rcData, rcBy, rcBody, lcSets, lcGot>>
  /\ UNCHANGED <<cmpVars, mVars, runVars, genVars>>

\* LLMCache.set
LcSet ==
  /\ lcPc = "loaded"
  /\ lcSets < MaxCalls
  /\ \E q \in {"q", "q:n", "Sign in."}, m \in Models :
       lcCache' = cacheSet(lcCache, q, m, MatchResult("Log on"))
  /\ lcSets' = lcSets + 1
  /\ UNCHANGED <<rcData, rcBy, rcBody, lcGot, lcPc>>
  /\ UNCHANGED <<cmpVars, mVars, runVars, genVars>>

\* LLMCache.get
LcGet ==
  /\ lcPc = "loaded"
  /\ \E q \in CacheQueries, m \in Models :
       lcGot' = [newString |-> q, model |-> m, entry |-> cacheGet(lcCache, q, m)]
  /\ UNCHANGED <<rcData, rcBy, rcBody, lcCache, lcSets, lcPc>>
  /\ UNCHANGED <<cmpVars, mVars, runVars, genVars>>

LcNext == PostReport \/ LcLoad \/ LcSet \/ LcGet

-----------------------------------------------------------------------------
(* generateMarkdownReport: the two loops that ask findBestMatch *)

\* the comparisons a report is generated for, by their counts; every base
\* entry of these is changed or removed in the target
GenResults ==
  [nAdded : {0, 1, rowLimit, rowLimit + 1}, nChanged : {0, 1, rowLimit, rowLimit + 1},
   nRemoved : 0..1]

\* baseEntriesArray.length: the base entries, then the removed entries again
poolLength(r) == (r.nChanged + r.nRemoved) + r.nRemoved

limitNone(length) == length

\* const limit = Math.min(results.added.length, 100)
limit(length) == Min(length, rowLimit)

GenInit ==
  /\ genResults = [nAdded |-> 0, nChanged |-> 0, nRemoved |-> 0]
  /\ genKey = ""
  /\ genPc = "idle"
  /\ genI = 0
  /\ genCalls = <<>>

\* generateMarkdownReport is called without a key, with a malformed one or
\* with a well-formed one; it returns at once when totalChanges is 0
GenStart ==
  /\ genPc = "idle"
  /\ \E r \in GenResults, key \in {"", "bad-key", "sk-or-1"} :
       /\ genResults' = r
       /\ genKey' = key
       /\ genPc' = IF totalChanges(r) = 0 THEN "done" ELSE "added"
  /\ genI' = 0
  /\ UNCHANGED genCalls
  /\ UNCHANGED <<cmpVars, mVars, runVars, lcVars>>

\* one pass of a loop for table (its entries number length): the entry at
\* index genI is asked about if there is a key and a candidate; the call may
\* throw, which generateMarkdownReport rethrows; behind the last entry the
\* table is rendered and next follows
LoopStep(table, length, next) ==
  /\ IF genI < limit(length)
     THEN IF reporterAsks(genKey, [k \in 1..poolLength(genResults) |-> k])
          THEN /\ genCalls' = Append(genCalls, [table |-> table, index |-> genI + 1])
               /\ \E thrown \in {t \in BOOLEAN : t => StartsWith(genKey, "sk-or-")} :
                    IF thrown THEN genPc' = "thrown" /\ UNCHANGED genI
                    ELSE genI' = genI + 1 /\ UNCHANGED genPc
          ELSE genI' = genI + 1 /\ UNCHANGED <<genPc, genCalls>>
     ELSE genPc' = next /\ genI' = 0 /\ UNCHANGED genCalls
  /\ UNCHANGED <<genResults, genKey>>
  /\ UNCHANGED <<cmpVars, mVars, runVars, lcVars>>

\* Added strings table
AddedLoop ==
  /\ genPc = "added"
  /\ LoopStep("added", genResults.nAdded, "changed")

\* Changed strings table
ChangedLoop ==
  /\ genPc = "changed"
  /\ LoopStep("changed", genResults.nChanged, "done")

GenNext == GenStart \/ AddedLoop \/ ChangedLoop

-----------------------------------------------------------------------------
(* Specifications *)

Init == CmpInit /\ MInit /\ RunInit /\ LcInit /\ GenInit

SpecCompare == Init /\ [][CmpNext]_vars

SpecMatcher == Init /\ [][MNext]_vars

SpecRun == Init /\ [][RunNext]_vars

SpecCache == Init /\ [][LcNext]_vars

SpecReport == Init /\ [][GenNext]_vars

-----------------------------------------------------------------------------
(* Properties of the comparator *)

KeysOf(entries) == { getKey(e) : e \in SeqToSet(entries) }

ChangedKeys == { getKey(p.base) : p \in SeqToSet(changed) }

\* C1: after compare(), added holds exactly the target entries whose key is
\* not a base key, removed exactly the base entries whose key is not a target
\* key, changed only pairs of the keys present in both; the added, removed and
\* common key sets are pairwise disjoint and cover baseKeys \cup targetKeys.
C1_Partition ==
  cmpPc = "compared" =>
    LET A == KeysOf(added)
        R == KeysOf(removed)
        C == SeqToSet(commonKeys)
    IN /\ SeqToSet(added) = { MapGet(targetEntries, k) : k \in targetKeys \ baseKeys }
       /\ Len(added) = Cardinality(targetKeys \ baseKeys)
       /\ SeqToSet(removed) = { MapGet(baseEntries, k) : k \in baseKeys \ targetKeys }
       /\ Len(removed) = Cardinality(baseKeys \ targetKeys)
       /\ C = baseKeys \cap targetKeys
       /\ \A p \in SeqToSet(changed) :
            /\ getKey(p.base) \in C
            /\ p.base = MapGet(baseEntries, getKey(p.base))
            /\ p.target = MapGet(targetEntries, getKey(p.base))
       /\ A \cap R = {} /\ A \cap C = {} /\ R \cap C = {}
       /\ A \cup R \cup C = baseKeys \cup targetKeys

C1_Witness ==
  /\ cmpPc = "compared"
  /\ added # <<>> /\ removed # <<>> /\ commonKeys # <<>>

C3_CommentChangeIsChanged ==
  cmpPc = "compared" =>
    \A k \in baseKeys \cap targetKeys :
      (\/ MapGet(baseEntries, k).msgidPlural # MapGet(targetEntries, k).msgidPlural
       \/ MapGet(baseEntries, k).comments # MapGet(targetEntries, k).comments)
        => k \in ChangedKeys

\* C4: comparing an index with an element-wise identical index yields no
\* added, removed or changed entry and totalChanges = 0.
C4_IdenticalCatalogs ==
  (cmpPc = "compared" /\ baseEntries = targetEntries) =>
    /\ getResults.added = <<>>
    /\ getResults.removed = <<>>
    /\ getResults.changed = <<>>
    /\ getResults.totalChanges = 0

C4_Witness ==
  /\ cmpPc = "compared"
  /\ baseParsed = targetParsed
  /\ Len(baseEntries) >= 2
  /\ \E i \in 1..Len(baseEntries) : baseEntries[i].value.msgidPlural # ""

\* the last record of the processing order that carries key k
LastWithKey(order, k) ==
  order[CHOOSE i \in 1..Len(order) :
          /\ order[i].msgid # "" /\ getKey(EntryOf(order[i])) = k
          /\ \A j \in (i + 1)..Len(order) :
               order[j].msgid = "" \/ getKey(EntryOf(order[j])) # k]

IndexOf(parsed, entries) ==
  LET order == ProcessingOrder(parsed)
      keys == { getKey(EntryOf(order[i])) : i \in {j \in 1..Len(order) : order[j].msgid # ""} }
  IN /\ \A i, j \in 1..Len(entries) : entries[i].key = entries[j].key => i = j
     /\ SeqToSet(MapKeys(entries)) = keys
     /\ \A k \in keys : MapGet(entries, k) = EntryOf(LastWithKey(order, k))

\* C5: an index built from a sequence of records holds exactly one entry per
\* identity key, and for a key carried by several records the entry is the
\* one of the record processed last.
C5_LastRecordWins ==
  cmpPc # "constructed" =>
    /\ IndexOf(baseParsed, baseEntries)
    /\ IndexOf(targetParsed, targetEntries)

C5_Witness ==
  /\ cmpPc = "loaded"
  /\ Len(baseParsed) = 2
  /\ Len(baseEntries) = 1
  /\ baseParsed[1].msgid # "" /\ baseParsed[2].msgid # ""

-----------------------------------------------------------------------------
(* Properties of the cache and the matcher *)

EntriesOf(c) == { c[i].value : i \in 1..Len(c) }

\* the last findBestMatch call wrote its answer with cache.set
WroteAnswer(ended) == ended.kind = "return" /\ ended.via \in {"match", "exhausted"}

MalformedKey(key) == ~BlankKey(key) /\ ~StartsWith(key, "sk-or-")

\* C6: after set(q, m, a), get(q, m) returns an entry whose result is a,
\* whatever else the cache holds; every entry written by set is found again
\* under its own query and model; and a findBestMatch for the same query that
\* follows the call that wrote a returns a from the cache, without a query to
\* the oracle.
C6_RoundTrip ==
  /\ (mPc = "idle" /\ WroteAnswer(lastReturn)) =>
       /\ cacheGet(cache, curQuery, model).result = lastReturn.value
       /\ modified
  /\ \A e \in EntriesOf(cache) :
       ~e.fromReport => cacheGet(cache, e.newString, e.model).result = e.result
  /\ (calls >= 2 /\ WroteAnswer(prevCall.ended) /\ prevCall.query = curQuery) =>
       /\ mPc = "idle"
       /\ lastReturn = Ended("return", "cache", prevCall.ended.value)
       /\ oracleCalls = 0

C6_Witness ==
  /\ mPc = "idle"
  /\ calls >= 2
  /\ prevCall.ended = Ended("return", "match", MatchResult("Log in"))
  /\ prevCall.query = curQuery
  /\ lastReturn = Ended("return", "cache", MatchResult("Log in"))
  /\ \E e \in EntriesOf(cache) : e.fromReport
  /\ oracleCalls = 0

\* C7: no entry of the cache, in memory or in the file, holds an error
\* answer: every result is {match: string} or {match: null}; after a
\* findBestMatch that returned an error answer of the oracle the cache has
\* no entry for the query, and the next findBestMatch for the same query
\* queries the oracle again.
C7_ErrorsNotCached ==
  /\ \A e \in EntriesOf(cache) \cup EntriesOf(cacheFile.data) :
       /\ e.result.error = Undefined
       /\ e.result.match # Undefined
  /\ (mPc = "idle" /\ lastReturn.via = "error") =>
       cacheGet(cache, curQuery, model) = NullEntry
  /\ (calls >= 2 /\ prevCall.ended.via = "error" /\ prevCall.query = curQuery) =>
       /\ oracleCalls >= 1
       /\ lastReturn.via # "cache"

C7_Witness ==
  /\ mPc = "waiting"
  /\ calls >= 2
  /\ prevCall.ended = Ended("return", "error", ErrorResult("Empty response"))
  /\ prevCall.query = curQuery
  /\ oracleCalls = 1

\* live queries get() is asked for
ProbeQueries ==
  Queries \cup {"Please sign in to cont", "Please sign in to contact us", "Sign", "Signal"}

\* C8: when the cache holds a report-derived entry whose stored query ends
\* with "...", get(q, model) returns an entry for every query q that starts
\* with the stored text minus the "...", for any model.
C8_FuzzyFallback ==
  cacheLoaded =>
    \A e \in EntriesOf(cache) :
      (e.fromReport /\ EndsWith(e.newString, "...")) =>
        \A q \in ProbeQueries, m \in Models :
          StartsWith(q, SubSeq(e.newString, 1, Len(e.newString) - 3)) =>
            cacheGet(cache, q, m) # NullEntry

C8_Witness ==
  /\ cacheLoaded
  /\ MapHas(cache, "Please sign in to cont...")
  /\ ~MapHas(cache, "Please sign in to continue")
  /\ curQuery = "Please sign in to continue"
  /\ mPc = "idle"
  /\ lastReturn = Ended("return", "cache", MatchResult("Log in"))

\* C9: a findBestMatch call that consults the cache and finds an entry for
\* (query, model) returns the result of that entry at once, with no query to
\* the oracle, also when the result is {match: null}.
C9_CacheHitReturns ==
  [][ (/\ calls' = calls + 1
       /\ ~BlankKey(apiKey)
       /\ cacheGet(cache', curQuery', model) # NullEntry)
      => /\ mPc' = "idle"
         /\ lastReturn' = Ended("return", "cache", cacheGet(cache', curQuery', model).result)
         /\ oracleCalls' = 0
         /\ modified' = modified ]_vars

C9_Witness ==
  /\ mPc = "idle"
  /\ lastReturn = Ended("return", "cache", MatchResult(Null))
  /\ oracleCalls = 0
  /\ MapHas(cache, generateKey(curQuery, model))

\* C10: with a malformed credential (not blank, not starting with "sk-or-")
\* every findBestMatch returns {error: "Invalid key format"} with no query to
\* the oracle, whatever the query, the pool and the cache.
C10_MalformedKeyIsError ==
  (mPc # "off" /\ calls >= 1 /\ MalformedKey(apiKey)) =>
    /\ mPc = "idle"
    /\ lastReturn = Ended("return", "key", ErrorResult("Invalid key format"))
    /\ oracleCalls = 0

\* C10 (amended): with a malformed credential findBestMatch issues no query
\* to the oracle; it returns {error: "Invalid key format"} when the cache has
\* no entry for (query, model), and the cached answer when it has one.
C10_MalformedKeyAfterCache ==
  (mPc # "off" /\ calls >= 1 /\ MalformedKey(apiKey)) =>
    /\ mPc = "idle"
    /\ oracleCalls = 0
    /\ lastReturn =
         IF cacheGet(cache, curQuery, model) = NullEntry
         THEN Ended("return", "key", ErrorResult("Invalid key format"))
         ELSE Ended("return", "cache", cacheGet(cache, curQuery, model).result)

C10_Witness ==
  /\ MalformedKey(apiKey)
  /\ mPc = "idle"
  /\ calls >= 1
  /\ cache # <<>>
  /\ lastReturn = Ended("return", "key", ErrorResult("Invalid key format"))

-----------------------------------------------------------------------------
(* Properties of findBestMatch: disabled feature, empty inputs, batches *)

LastCell == cells[Len(cells)]

\* an empty, missing or whitespace-only input
EmptyOrWhitespace(x) == x \in {Undefined, Null} \/ Trim(x) = ""

\* C11: with an empty or whitespace-only credential findBestMatch returns
\* {match: null}, issues no query to the oracle, neither creates, loads nor
\* changes the cache or its file, and the reporter that asked shows no error.
C11_BlankKeyDisabled ==
  [][ (calls' = calls + 1 /\ EmptyOrWhitespace(apiKey))
      => /\ mPc' = "idle"
         /\ lastReturn' = Ended("return", "disabled", MatchResult(Null))
         /\ lastReturn'.value.error = Undefined
         /\ oracleCalls' = 0
         /\ cacheLoaded' = cacheLoaded
         /\ cache' = cache
         /\ modified' = modified
         /\ cacheFile' = cacheFile
         /\ reporterAsks(apiKey, Pools[pool]) =>
              /\ Len(cells') = Len(cells) + 1
              /\ cells'[Len(cells')].suggestedMatch = "*No close match*" ]_vars

C11_Witness ==
  /\ apiKey = " "
  /\ mPc = "idle"
  /\ calls >= 1
  /\ lastReturn = Ended("return", "disabled", MatchResult(Null))
  /\ ~cacheLoaded
  /\ cacheFile.exists
  /\ cells # <<>>
  /\ LastCell.suggestedMatch = "*No close match*"

\* C12: with a well-formed credential, an empty or whitespace-only query or
\* an empty candidate pool makes findBestMatch return {match: null} with no
\* query to the oracle, whatever the cache holds.
C12_EmptyInputIsNoMatch ==
  (/\ mPc # "off" /\ calls >= 1
   /\ StartsWith(apiKey, "sk-or-")
   /\ (EmptyOrWhitespace(curQuery) \/ Pools[pool] = <<>>)) =>
    /\ mPc = "idle"
    /\ lastReturn.kind = "return"
    /\ lastReturn.value = MatchResult(Null)
    /\ oracleCalls = 0

\* C12 (amended): with a well-formed credential and an empty or
\* whitespace-only query or an empty candidate pool, findBestMatch issues no
\* query to the oracle; it returns {match: null} when the cache has no entry
\* for (query, model), and the cached answer when it has one.
C12_EmptyInputAfterCache ==
  (/\ mPc # "off" /\ calls >= 1
   /\ StartsWith(apiKey, "sk-or-")
   /\ (EmptyOrWhitespace(curQuery) \/ Pools[pool] = <<>>)) =>
    /\ mPc = "idle"
    /\ oracleCalls = 0
    /\ lastReturn =
         IF cacheGet(cache, curQuery, model) # NullEntry
         THEN Ended("return", "cache", cacheGet(cache, curQuery, model).result)
         ELSE IF EmptyOrWhitespace(curQuery)
              THEN Ended("return", "query", MatchResult(Null))
              ELSE Ended("return", "pool", MatchResult(Null))

C12_Witness ==
  /\ StartsWith(apiKey, "sk-or-")
  /\ mPc = "idle"
  /\ calls >= 2
  /\ Pools[pool] = <<>>
  /\ cache # <<>>
  /\ prevCall.ended = Ended("return", "query", MatchResult(Null))
  /\ lastReturn = Ended("return", "pool", MatchResult(Null))
  /\ oracleCalls = 0

\* the batches of every pool are its slices [1000*i, 1000*(i+1)), cut at the
\* end of the pool, in pool order
BatchesAreSlices ==
  \A p \in DOMAIN Pools :
    LET strings == BaseStringsOf[p]
    IN \A i \in 0..(NumBatches(strings) - 1) :
         LET sent == Batch(strings, i)
             end == IF 1000 * (i + 1) <= Len(strings) THEN 1000 * (i + 1) ELSE Len(strings)
         IN /\ Len(sent) = end - 1000 * i
            /\ \A k \in 1..Len(sent) : sent[k] = strings[1000 * i + k]

\* C13: one findBestMatch call issues at most 10 queries to the oracle, each
\* with at most 1000 candidates; the batch of query number i (from 0) is the
\* slice [1000*i, 1000*(i+1)) of the filtered pool, cut at the end of the
\* pool, in pool order; no candidate beyond the first 10000 is sent.
C13_BatchesBounded ==
  /\ oracleCalls <= 10
  /\ mPc \in {"waiting", "delay"} =>
       /\ oracleCalls = batchIdx + 1
       /\ batchIdx < NumBatches(BaseStringsOf[pool])
       /\ slice.start = 1000 * batchIdx
       /\ slice.end = IF 1000 * (batchIdx + 1) <= Len(BaseStringsOf[pool])
                      THEN 1000 * (batchIdx + 1) ELSE Len(BaseStringsOf[pool])
       /\ slice.end <= 10000
       /\ slice.end - slice.start \in 1..1000
  /\ BatchesAreSlices
  /\ BaseStringsOf["small"] = <<"Log in", Repeat("x", 199)>>
  /\ BaseStringsOf["unusable"] = <<>>

C13_Witness ==
  /\ mPc = "waiting"
  /\ Len(BaseStringsOf[pool]) > 10000
  /\ oracleCalls = 10
  /\ slice = [start |-> 9000, end |-> 10000]
  /\ Batch(BaseStringsOf[pool], batchIdx)[1000] = BaseStringsOf[pool][10000]

\* a settled callOpenRouter promise that carries a positive match
PositiveMatch(settled) == settled.kind = "resolve" /\ Truthy(settled.value.match)

\* C14: batches are queried in order, one more only after the one before
\* answered without a match; the first batch that answers with a match ends
\* the call: the call returns that match, the cache holds it for (query,
\* model), and no further batch is queried by the call.
C14_FirstMatchEndsCall ==
  [][ /\ PositiveMatch(answer') =>
           /\ mPc' = "idle"
           /\ lastReturn' = Ended("return", "match", answer'.value)
           /\ cacheGet(cache', curQuery', model').result = answer'.value
           /\ modified'
           /\ oracleCalls' = batchIdx' + 1
           /\ oracleCalls' = oracleCalls
      /\ (oracleCalls' > oracleCalls) =>
           /\ ~PositiveMatch(answer)
           /\ IF calls' = calls
              THEN /\ mPc = "delay"
                   /\ batchIdx' = batchIdx + 1
                   /\ oracleCalls' = oracleCalls + 1
                   /\ slice'.start = slice.end
              ELSE /\ batchIdx' = 0
                   /\ oracleCalls' = 1
                   /\ slice'.start = 0 ]_vars

C14_Witness ==
  /\ mPc = "idle"
  /\ NumBatches(BaseStringsOf[pool]) > 2
  /\ batchIdx = 1
  /\ oracleCalls = 2
  /\ answer = Resolved(MatchResult("Log in"))
  /\ lastReturn = Ended("return", "match", MatchResult("Log in"))
  /\ cacheGet(cache, curQuery, model).result = MatchResult("Log in")

\* a settled callOpenRouter promise that carries neither a match nor an error
NoMatchAnswer(settled) ==
  /\ settled.kind = "resolve"
  /\ ~Truthy(settled.value.match)
  /\ ~Truthy(settled.value.error)

\* the number of batches the call may query: ceil(length / 1000), at most 10
BatchesToQuery(strings) ==
  IF Len(strings) >= 10000 THEN 10
  ELSE IF Len(strings) % 1000 = 0 THEN Len(strings) \div 1000
  ELSE Len(strings) \div 1000 + 1

\* C15: when the last batch the call may query (the one at the end of the
\* pool, or the tenth) answers no match without error, as all before it did,
\* findBestMatch returns {match: null} and the cache holds {match: null} for
\* (query, model); a later call for the same pair returns it from the cache
\* without a query to the oracle.
C15_ExhaustedIsCachedNoMatch ==
  /\ (NoMatchAnswer(answer) /\ oracleCalls = BatchesToQuery(BaseStringsOf[pool])) =>
       /\ mPc = "idle"
       /\ lastReturn = Ended("return", "exhausted", MatchResult(Null))
       /\ cacheGet(cache, curQuery, model).result = MatchResult(Null)
       /\ modified
  /\ lastReturn.via = "exhausted" =>
       /\ NoMatchAnswer(answer)
       /\ oracleCalls = BatchesToQuery(BaseStringsOf[pool])
  /\ (calls >= 2 /\ prevCall.ended.via = "exhausted" /\ prevCall.query = curQuery) =>
       /\ mPc = "idle"
       /\ lastReturn = Ended("return", "cache", MatchResult(Null))
       /\ oracleCalls = 0

C15_Witness ==
  /\ mPc = "idle"
  /\ Len(BaseStringsOf[pool]) > 10000
  /\ oracleCalls = 10
  /\ NoMatchAnswer(answer)
  /\ lastReturn = Ended("return", "exhausted", MatchResult(Null))
  /\ cacheGet(cache, curQuery, model) = HashedEntry(curQuery, model, MatchResult(Null))

-----------------------------------------------------------------------------
(* Properties of failures, the report and the cache file *)

\* C16: a query to the oracle that times out or fails in transport, in any
\* batch, makes findBestMatch throw; the call writes no cache entry and does
\* not set the dirty flag, also when earlier batches of the call answered
\* without a match.
C16_TimeoutPropagates ==
  [][ /\ \A reply \in Replies :
           reply.transport \in {"timeout", "error"} =>
             callOpenRouter(reply).kind = "reject"
      /\ answer'.kind = "reject" =>
           /\ mPc' = "thrown"
           /\ lastReturn' = Ended("throw", answer'.message, MatchResult(Undefined))
      /\ (mPc' \in {"waiting", "delay", "thrown"} /\ mPc # "thrown") =>
           /\ modified' = modified
           /\ cache' = IF cacheLoaded THEN cache ELSE cacheLoad(<<>>, cacheFile)
           /\ cacheGet(cache', curQuery', model') = NullEntry ]_vars

C16_Witness ==
  /\ mPc = "thrown"
  /\ batchIdx >= 1
  /\ answer = Rejected("Request timeout")
  /\ lastReturn = Ended("throw", "Request timeout", MatchResult(Undefined))
  /\ ~modified
  /\ cacheGet(cache, curQuery, model) = NullEntry

\* a reply of the oracle that is a transport or protocol failure
HardFailure(reply) == reply.transport # "response" \/ reply.statusCode # 200

BadPayload(reply) ==
  /\ ~HardFailure(reply)
  /\ ~reply.bodyParses \/ ~reply.hasContent \/ ~reply.contentParses

\* a settled callOpenRouter promise that reports a failure
ErrorAnswer(settled) == settled.kind = "resolve" /\ Truthy(settled.value.error)

FailedAnswer(settled) == settled.kind = "reject" \/ ErrorAnswer(settled)

\* the cells that show an error of the oracle
ErrorCells(entries) ==
  { i \in 1..Len(entries) :
      /\ StartsWith(entries[i].suggestedMatch, "LLM Error")
      /\ entries[i].suggestedMatch # "LLM Error: Invalid key format" }

\* C17: every failure of a query to the oracle (timeout, transport error,
\* non-success status, unparseable or empty payload) ends the run: the
\* error reaches the caller of the report generation and no report is
\* produced, not even one with an error cell.
C17_EveryFailureIsFatal ==
  /\ \A reply \in Replies :
       (HardFailure(reply) \/ BadPayload(reply)) => FailedAnswer(callOpenRouter(reply))
  /\ FailedAnswer(answer) =>
       /\ mPc = "thrown"
       /\ lastReturn.kind = "throw"
       /\ report = [status |-> "failed", entries |-> <<>>]
  /\ ErrorCells(cells) = {}
  /\ ErrorCells(report.entries) = {}

\* C17 (amended): a timeout, a transport error and a non-success status end
\* the run: findBestMatch throws, the error reaches the caller of the report
\* generation and no report is produced.  An unparseable or empty payload
\* does not: findBestMatch returns {error: reason} and the report, when the
\* run ends, has the cell "LLM Error: reason" for that string.
C17_HardFailureIsFatal ==
  [][ /\ \A reply \in Replies :
           /\ HardFailure(reply) => callOpenRouter(reply).kind = "reject"
           /\ BadPayload(reply) => ErrorAnswer(callOpenRouter(reply))
      /\ answer'.kind = "reject" =>
           /\ mPc' = "thrown"
           /\ lastReturn' = Ended("throw", answer'.message, MatchResult(Undefined))
           /\ report' = [status |-> "failed", entries |-> <<>>]
      /\ ErrorAnswer(answer') =>
           /\ mPc' = "idle"
           /\ lastReturn' = Ended("return", "error", answer'.value)
           /\ report'.status # "failed"
           /\ reporterAsks(apiKey', Pools[pool']) =>
                cells'[Len(cells')] =
                  [msgid |-> curQuery',
                   suggestedMatch |-> "LLM Error: " \o answer'.value.error,
                   hasSuggestion |-> FALSE]
      /\ (mPc = "idle" /\ mPc' = "off") =>
           report' = [status |-> "produced", entries |-> cells]
      /\ report'.status = "failed" => mPc' = "thrown" ]_vars

C17_Witness ==
  /\ report.status = "produced"
  /\ \E i \in 1..Len(report.entries) :
       report.entries[i].suggestedMatch = "LLM Error: Empty response"
  /\ \E i \in 1..Len(report.entries) :
       report.entries[i].suggestedMatch = "LLM Error: Parse error"

\* C18: as the README says, when the API call for a string fails the report
\* is still produced and the Suggested Match cell of the string is
\* "LLM Error: {reason}"; a match found shows the matched string and no
\* match shows "No close match".
C18_ReadmeSuggestedMatch ==
  reporterAsks(apiKey, Pools[pool]) =>
    /\ FailedAnswer(answer) =>
         /\ mPc = "idle"
         /\ report.status # "failed"
         /\ StartsWith(LastCell.suggestedMatch, "LLM Error: ")
    /\ PositiveMatch(answer) => LastCell.suggestedMatch = answer.value.match
    /\ (mPc = "idle" /\ lastReturn.via = "exhausted") =>
         LastCell.suggestedMatch = "*No close match*"

\* the entries written by set() in a cache object
SetEntries(c) == { e \in EntriesOf(c) : ~e.fromReport }

\* C19: when a run aborts on a hard error of the oracle, the entries
\* resolved earlier in the run are still saved: save() is executed after the
\* abort and the cache file holds them for a following run.
C19_SavedAfterAbort ==
  (mPc = "thrown" /\ modified) =>
    /\ cacheFile.exists
    /\ SetEntries(cache) \subseteq EntriesOf(cacheFile.data)

\* C19 (amended): when a run aborts on a hard error of the oracle, save() is
\* not executed: the cache file stays as it was when the run started, and it
\* only changes at the end of a run that did not abort.
C19_AbortSavesNothing ==
  [][ /\ mPc' = "thrown" => cacheFile' = cacheFile
      /\ cacheFile' # cacheFile =>
           /\ mPc = "idle" /\ mPc' = "off"
           /\ report'.status = "produced"
           /\ cacheFile' = [exists |-> TRUE, data |-> cache] ]_vars

C19_Witness ==
  /\ mPc = "thrown"
  /\ modified
  /\ report.status = "failed"
  /\ prevCall.ended = Ended("return", "match", MatchResult("Log in"))
  /\ HashedEntry(prevCall.query, model, MatchResult("Log in")) \in SetEntries(cache)
  /\ ~cacheFile.exists

\* C20: save() writes nothing when no set() happened since the cache object
\* was created, load() does not make the cache dirty, set() always does, and
\* a save() after a set() writes the whole store.
C20_SaveOnlyWhenDirty ==
  [][ /\ (mPc = "idle" /\ mPc' = "off") =>
           cacheFile' = IF modified THEN [exists |-> TRUE, data |-> cache]
                                    ELSE cacheFile
      /\ (cacheLoaded' /\ ~cacheLoaded) =>
           /\ ~modified'
           /\ cache' = cacheLoad(IF calls' = 0 THEN prExtracted ELSE <<>>, cacheFile)
      /\ (cacheLoaded /\ cacheLoaded' /\ cache' # cache) =>
           /\ modified'
           /\ cache' = cacheSet(cache, curQuery, model, lastReturn'.value)
      /\ (modified' /\ ~modified) => (cacheLoaded /\ cache' # cache) ]_vars

C20_Witness ==
  /\ mPc = "off"
  /\ runs = 1
  /\ cacheFile.exists
  /\ \E e \in EntriesOf(cacheFile.data) : e.fromReport
  /\ \E e \in EntriesOf(cacheFile.data) : ~e.fromReport /\ e.result = MatchResult(Null)
  /\ report.status = "produced"

-----------------------------------------------------------------------------
(* Properties of the cache store, the order of queries and the candidates *)

\* C21: no entry of the cache is evicted: once loaded, every key of the cache
\* stays in it; set(q, m, a) changes the entry of (q, m) and no other; get
\* changes nothing, and save writes the entries as they are.
C21_NoEviction ==
  [][ /\ (cacheLoaded /\ cacheLoaded') =>
           /\ \A i \in 1..Len(cache) : MapHas(cache', cache[i].key)
           /\ \A i \in 1..Len(cache') :
                cache'[i].key # generateKey(curQuery, model) =>
                  /\ MapHas(cache, cache'[i].key)
                  /\ MapGet(cache, cache'[i].key) = cache'[i].value
           /\ cache' # cache =>
                /\ mPc = "waiting"
                /\ MapGet(cache', generateKey(curQuery, model)) =
                     HashedEntry(curQuery, model, lastReturn'.value)
           /\ calls' = calls + 1 => cache' = cache
      /\ (mPc = "idle" /\ mPc' = "off" /\ cacheFile' # cacheFile) =>
           cacheFile'.data = cache ]_vars

C21_Witness ==
  /\ cacheLoaded
  /\ mPc = "idle"
  /\ calls = 2
  /\ Len(cache) >= 4
  /\ \E e \in EntriesOf(cache) : e.fromReport
  /\ Cardinality(SetEntries(cache)) >= 2
  /\ lastReturn.via \in {"match", "exhausted"}

\* a step that sends a query to the oracle
IssuesQuery ==
  \/ calls' = calls /\ oracleCalls' > oracleCalls
  \/ calls' = calls + 1 /\ oracleCalls' > 0

\* C22: queries to the oracle are strictly sequential: a query is sent only
\* when none is pending, the query for the next batch is sent only after the
\* inter-batch delay that follows an answer, the query for the next string
\* only after the call before it has returned, and there is no delay after
\* the last batch of a call.
C22_SequentialQueries ==
  [][ /\ IssuesQuery =>
           /\ mPc # "waiting"
           /\ mPc' = "waiting"
           /\ answer' = NoAnswer
           /\ IF calls' = calls
              THEN /\ mPc = "delay"
                   /\ answer.kind = "resolve"
                   /\ oracleCalls' = oracleCalls + 1
              ELSE /\ mPc = "idle"
                   /\ oracleCalls' = 1
      /\ (mPc = "waiting" /\ mPc' # "waiting") =>
           /\ answer'.kind \in {"resolve", "reject"}
           /\ oracleCalls' = oracleCalls
      /\ mPc' = "delay" =>
           /\ mPc = "waiting"
           /\ oracleCalls' < BatchesToQuery(BaseStringsOf[pool']) ]_vars

C22_Witness ==
  /\ mPc = "waiting"
  /\ calls = 2
  /\ oracleCalls = 3
  /\ answer = NoAnswer
  /\ prevCall.ended.via = "exhausted"

\* C23: the candidates sent to the oracle for one query, taken from the pool
\* the reporter builds of the base index and the removed entries, are all
\* non-empty after trimming and shorter than 200 characters, and no string
\* is among them twice.
C23_CandidatesValidAndDistinct ==
  cmpPc = "compared" =>
    LET sent == FilterBaseStrings(baseEntriesArray(baseEntries, removed))
    IN /\ \A i \in 1..Len(sent) : Len(Trim(sent[i])) > 0 /\ Len(sent[i]) < 200
       /\ \A i, j \in 1..Len(sent) : sent[i] = sent[j] => i = j

-----------------------------------------------------------------------------
(* Properties of run() *)

\* an error ended the run early: an input was not given, a catalog file is
\* missing or does not load, the oracle failed hard, or the job summary
\* could not be written
FatalError ==
  \/ runIn.catalogs # "ok"
  \/ runFatal \in {"oracle", "summary"}

\* C24: a run that has ended is marked failed exactly when a fatal error
\* occurred or when fail-on-changes is true and totalChanges > 0; a
\* comparison with no changes and no error ends in success, and a failure to
\* post the PR comment alone (a warning) never marks the run failed.
C24_FailedIffFatalOrChanges ==
  runPc = "ended" =>
    /\ runStatus \in {"failed", "success"}
    /\ runStatus = "failed"
         <=> (FatalError \/ (runIn.failOnChanges /\ totalChanges(results) > 0))
    /\ (~FatalError /\ totalChanges(results) = 0) => runStatus = "success"
    /\ (runWarned /\ ~FatalError
          /\ ~(runIn.failOnChanges /\ totalChanges(results) > 0))
         => runStatus = "success"

\* a run with changes whose PR comment could not be posted ended in success
C24_Witness ==
  /\ runPc = "ended"
  /\ runWarned
  /\ totalChanges(results) > 0
  /\ runStatus = "success"

\* the positions of the comments that carry the report identifier
ReportComments(comments) ==
  { k \in 1..Len(comments) : Includes(comments[k].body, commentIdentifier) }

\* the run has commenting enabled: comment-on-pr and a pull request context
Commenting == runIn.commentOnPR /\ runIn.prContext

-----------------------------------------------------------------------------
(* Properties of the comparator, continued *)

\* C25: compare() is idempotent on one comparator: a second call on the
\* same loaded indexes leaves added, removed, changed and totalChanges as
\* the first call produced them.
C25_CompareIdempotent ==
  [][ (cmpPc = "compared" /\ compares' = compares + 1)
        => /\ added' = added
           /\ removed' = removed
           /\ changed' = changed
           /\ getTotalChanges' = getTotalChanges ]_vars

\* the records of the two parsed files that become entries
LoadedRecords ==
  { r \in SeqToSet(baseParsed) \cup SeqToSet(targetParsed) : r.msgid # "" }

\* C26: the identity key is injective on (context, primaryText): two
\* records of the loaded catalogs get the same key only if they have the
\* same context and the same msgid.
C26_KeyInjective ==
  \A r1, r2 \in LoadedRecords :
    getKey(EntryOf(r1)) = getKey(EntryOf(r2))
      => (r1.context = r2.context /\ r1.msgid = r2.msgid)

-----------------------------------------------------------------------------
(* Properties of the cache read back from a report *)

\* the stored query without its truncation marker
StrippedPrefix(stored) == SubSeq(stored, 1, Len(stored) - 3)

\* the stored query is the live query or an ellipsis-terminated truncation
\* whose stripped prefix is a prefix of the live query
SameOrTruncated(stored, live) ==
  \/ stored = live
  \/ EndsWith(stored, "...") /\ StartsWith(live, StrippedPrefix(stored))

\* C27 as stated: get(query, model) only returns an entry whose stored query
\* is the live query or an ellipsis-terminated truncation of it.
C27_NeverAnotherString ==
  lcGot.entry # NullEntry =>
    SameOrTruncated(lcGot.entry.newString, lcGot.newString)

\* C27 (amended): get(query, model) only returns an entry stored by set for
\* a string and model that give the same `${string}:${model}` text as the
\* live pair, an entry stored under the live query itself, a report entry
\* whose stored query is the live query or an ellipsis-terminated truncation
\* of it, or, for a live query longer than 40 characters, a report entry
\* whose stored query starts with the first 40 characters of the live query.
C27_ReturnedEntryIsRelated ==
  lcGot.entry # NullEntry =>
    LET e == lcGot.entry
        q == lcGot.newString
    IN \/ ~e.fromReport /\ generateKey(e.newString, e.model) = generateKey(q, lcGot.model)
       \/ ~e.fromReport /\ generateKey(e.newString, e.model) = q
       \/ e.fromReport /\ SameOrTruncated(e.newString, q)
       \/ /\ e.fromReport
          /\ Len(q) > FuzzyPrefixLen
          /\ StartsWith(e.newString, SubSeq(q, 1, FuzzyPrefixLen))

\* a live query got the answer a report recorded for another string with
\* the same first 40 characters
C27_Witness ==
  /\ lcGot.newString = LongQueryB
  /\ lcGot.entry.fromReport
  /\ lcGot.entry.newString = LongQueryA

\* C29: a report the reporter wrote is read back by the next run: for every
\* row with a suggested match M and an untruncated string s, get(s, model)
\* returns { match: M } right after load(), and the other rows give no entry.
C29_ReportRoundTrip ==
  (lcPc = "loaded" /\ rcBy = "reporter" /\ lcSets = 0) =>
    \A i \in 1..Len(rcData) :
      IF rcData[i].hasSuggestion
      THEN Len(escapeMarkdown(rcData[i].msgid)) <= addedWidth
             => \A m \in Models :
                  cacheGet(lcCache, rcData[i].msgid, m).result
                    = MatchResult(rcData[i].suggestedMatch)
      ELSE ~MapHas(lcCache, rcData[i].msgid)

\* the same for a report under the heading the cache looks for
ReadBackUnderExpectedHeading ==
  (lcPc = "loaded" /\ rcBy = "other" /\ lcSets = 0) =>
    \A i \in 1..Len(rcData) :
      IF rcData[i].hasSuggestion
      THEN Len(escapeMarkdown(rcData[i].msgid)) <= addedWidth
             => \A m \in Models :
                  cacheGet(lcCache, rcData[i].msgid, m).result
                    = MatchResult(rcData[i].suggestedMatch)
      ELSE ~MapHas(lcCache, rcData[i].msgid)

-----------------------------------------------------------------------------
(* Properties of generateMarkdownReport *)

\* the length of the table a call belongs to
TableLength(call) ==
  IF call.table = "added" THEN genResults.nAdded ELSE genResults.nChanged

\* C30: generateMarkdownReport asks findBestMatch at most once per added and
\* once per changed entry, only for the first 100 entries of each table, in
\* result order with the added table before the changed table (each call
\* comes later in that order than the call before it), and not at all when
\* totalChanges = 0 or when no credential is given.
C30_BoundedOracleWork ==
  /\ \A p \in 1..Len(genCalls) :
       /\ genCalls[p].index >= 1
       /\ genCalls[p].index <= rowLimit
       /\ genCalls[p].index <= TableLength(genCalls[p])
  /\ \A p \in 1..(Len(genCalls) - 1) :
       \/ genCalls[p].table = "added" /\ genCalls[p + 1].table = "changed"
       \/ /\ genCalls[p].table = genCalls[p + 1].table
          /\ genCalls[p].index < genCalls[p + 1].index
  /\ (totalChanges(genResults) = 0 \/ ~Truthy(genKey)) => genCalls = <<>>

\* a report for 101 added and 101 changed entries is done after 200 calls
C30_Witness ==
  /\ genPc = "done"
  /\ genResults.nAdded = rowLimit + 1
  /\ genResults.nChanged = rowLimit + 1
  /\ Len(genCalls) = 2 * rowLimit
====
